---- MODULE Spec2Model ----
(***************************************************************************)
(* Model of the explanation service of TrainingGround:                     *)
(*   - the fingerprint cache (services/cache.py),                           *)
(*   - the explanation orchestrator (services/explanations.py) with its    *)
(*     collaborators (feature flags, context retriever, generation client, *)
(*     fallback resolver),                                                  *)
(*   - the circuit breaker middleware (middleware.py).                      *)
(* Python's None is the string NoneVal; an optional value is a sequence of *)
(* length 0 or 1.                                                           *)
(***************************************************************************)
EXTENDS Integers, Sequences, FiniteSets, TLC

NoneVal == "<None>"

(***************************************************************************)
(* Requests and responses (models/dto.py)                                  *)
(***************************************************************************)
TaskIds == {"t1", "t2", "t3", "t4", "t5", "t6", "t7", "t8"}

\* ExplanationRequest with the field defaults of the DTO.
BaseRequest(t) ==
    [task_id |-> t, topic_id |-> NoneVal, task_type |-> NoneVal,
     user_errors |-> <<>>, language_level |-> NoneVal, language |-> "ru",
     request_id |-> NoneVal]

\* The requests of the model: the default request of a task and the requests
\* that differ from it in one field (three different user_errors lists, two
\* of them permutations of each other).
RequestsOf(t) ==
    {BaseRequest(t),
     [BaseRequest(t) EXCEPT !.topic_id = "topic-1"],
     [BaseRequest(t) EXCEPT !.task_type = "grammar"],
     [BaseRequest(t) EXCEPT !.language_level = "A1"],
     [BaseRequest(t) EXCEPT !.language = "en"],
     [BaseRequest(t) EXCEPT !.request_id = "rq-1"],
     [BaseRequest(t) EXCEPT !.user_errors = <<"e1">>],
     [BaseRequest(t) EXCEPT !.user_errors = <<"e1", "e2">>],
     [BaseRequest(t) EXCEPT !.user_errors = <<"e2", "e1">>]}

CacheTaskIds == {"t1", "t2"}

CacheRequests == UNION {RequestsOf(t) : t \in CacheTaskIds}

\* ExplanationResponse: generated_at is a datetime, here a tagged tick count.
Datetime(n) == <<"datetime", n>>

MkResponse(text, refs, src, ms, at) ==
    [explanation |-> text, rule_refs |-> refs, source |-> src,
     took_ms |-> ms, generated_at |-> Datetime(at)]

CacheResponses ==
    {MkResponse("hello", <<"r1">>, "yandexgpt", 10, 1),
     MkResponse("foo", <<>>, "fallback", 5, 2)}

(***************************************************************************)
(* Fingerprint cache (services/cache.py)                                   *)
(***************************************************************************)
\* model_dump(include=...) + json.dumps(sort_keys=True) + sha256: the digest
\* of the canonical JSON of the six fields; request_id is not included.
\* SHA-256 is taken to be collision free, so the digest is the tagged
\* canonical document.
FingerprintNoErrors(payload) ==
    <<"sha256",
      [task_id |-> payload.task_id, topic_id |-> payload.topic_id,
       task_type |-> payload.task_type, user_errors |-> <<>>,
       language_level |-> payload.language_level,
       language |-> payload.language]>>

Fingerprint(payload) ==
    <<"sha256",
      [task_id |-> payload.task_id, topic_id |-> payload.topic_id,
       task_type |-> payload.task_type, user_errors |-> payload.user_errors,
       language_level |-> payload.language_level,
       language |-> payload.language]>>

\* _key: "explanation:cache:<task_id>"; the prefix is the same for every
\* key, so the key is represented by the task id.
Key(task_id) == task_id

\* response.model_dump(mode="json"): the JSON form of a response; the
\* datetime becomes its ISO-8601 string.
IsoString(dt) == <<"iso8601", dt[2]>>

ResponseToJson(response) ==
    [explanation |-> response.explanation, rule_refs |-> response.rule_refs,
     source |-> response.source, took_ms |-> response.took_ms,
     generated_at |-> IsoString(response.generated_at)]

\* ExplanationResponse(**data["response"]): pydantic parses the ISO string
\* back into a datetime.
ParseIso(s) == <<"datetime", s[2]>>

ResponseFromJson(doc) ==
    [explanation |-> doc.explanation, rule_refs |-> doc.rule_refs,
     source |-> doc.source, took_ms |-> doc.took_ms,
     generated_at |-> ParseIso(doc.generated_at)]

\* Values of a Redis string key.  kind: "absent" (no key), "text" (a string
\* that is not JSON; text = "" is the empty string), "json_other" (valid
\* JSON that is not an object), "json_object" (a JSON object with optional
\* "fingerprint" and "response" members).
AbsentRaw == [kind |-> "absent", text |-> "", fingerprint |-> <<>>, response |-> <<>>]

TextRaw(s) == [kind |-> "text", text |-> s, fingerprint |-> <<>>, response |-> <<>>]

JsonOtherRaw == [kind |-> "json_other", text |-> "", fingerprint |-> <<>>, response |-> <<>>]

JsonObjectRaw(fp, resp) ==
    [kind |-> "json_object", text |-> "", fingerprint |-> fp, response |-> resp]

\* ExplanationCache.set: the document written with setex.
SetDocumentNoFingerprint(payload, response) ==
    JsonObjectRaw(<<>>, <<ResponseToJson(response)>>)

SetDocument(payload, response) ==
    JsonObjectRaw(<<Fingerprint(payload)>>, <<ResponseToJson(response)>>)

\* Results of ExplanationCache.get: kind "none" (returns None), "response"
\* (returns a response), "error" (raises).
GetNone == [kind |-> "none", response |-> <<>>, error |-> ""]

GetResponse(r) == [kind |-> "response", response |-> <<r>>, error |-> ""]

GetError(e) == [kind |-> "error", response |-> <<>>, error |-> e]

\* A get that serves whatever document the key holds.
CacheGetAnyFingerprint(raw, payload) ==
    IF raw.kind = "absent" \/ (raw.kind = "text" /\ raw.text = "")
    THEN GetNone
    ELSE IF raw.kind = "text"
    THEN GetResponse([explanation |-> raw.text, rule_refs |-> <<>>,
                      source |-> "cache", took_ms |-> 0,
                      generated_at |-> Datetime(0)])
    ELSE IF raw.kind = "json_other"
    THEN GetError("AttributeError")
    ELSE IF raw.response = <<>>
    THEN GetError("KeyError")
    ELSE GetResponse(ResponseFromJson(raw.response[1]))

\* ExplanationCache.get on the raw value read from Redis.  The response made
\* of a value that is not JSON takes generated_at from utcnow(); Datetime(0)
\* stands for that instant.
CacheGet(raw, payload) ==
    IF raw.kind = "absent" \/ (raw.kind = "text" /\ raw.text = "")
    THEN GetNone                                   \* if not raw: return None
    ELSE IF raw.kind = "text"                      \* json.JSONDecodeError
    THEN GetResponse([explanation |-> raw.text, rule_refs |-> <<>>,
                      source |-> "cache", took_ms |-> 0,
                      generated_at |-> Datetime(0)])
    ELSE IF raw.kind = "json_other"                \* data.get on a non-dict
    THEN GetError("AttributeError")
    ELSE IF raw.fingerprint # <<Fingerprint(payload)>>
    THEN GetNone
    ELSE IF raw.response = <<>>                    \* data["response"]
    THEN GetError("KeyError")
    ELSE GetResponse(ResponseFromJson(raw.response[1]))


(***************************************************************************)
(* Document store (Mongo): the records the orchestrator reads              *)
(***************************************************************************)
\* A hint of a task, with or without the field "text".
Hint(text) == [has_text |-> TRUE, text |-> text]

HintWithoutText == [has_text |-> FALSE, text |-> ""]

TaskDoc(hints, template_id) ==
    [exists |-> TRUE, hints |-> hints, template_id |-> template_id]

\* tasks: t1 has a template with rules; t2 has neither hints nor template;
\* t3 does not exist; t4 has two hints and no template; t5 names a template
\* that does not exist; the template of t6 has no rule_ids; the rules of
\* the template of t7 do not exist; the first hint of t8 has no text.
MongoTasks ==
    [t \in TaskIds |->
        IF t = "t1" THEN TaskDoc(<<>>, "tpl1")
        ELSE IF t = "t2" THEN TaskDoc(<<>>, NoneVal)
        ELSE IF t = "t4" THEN TaskDoc(<<Hint("first hint"), Hint("second hint")>>, NoneVal)
        ELSE IF t = "t5" THEN TaskDoc(<<>>, "tpl0")
        ELSE IF t = "t6" THEN TaskDoc(<<>>, "tpl2")
        ELSE IF t = "t7" THEN TaskDoc(<<>>, "tpl3")
        ELSE IF t = "t8" THEN TaskDoc(<<HintWithoutText>>, "tpl1")
        ELSE [exists |-> FALSE, hints |-> <<>>, template_id |-> NoneVal]]

TemplateIds == {"tpl1", "tpl2", "tpl3"}

MongoTemplates ==
    [t \in TemplateIds |->
        [rule_ids |-> IF t = "tpl1" THEN <<"r1">>
                      ELSE IF t = "tpl2" THEN <<>>
                      ELSE <<"r9">>]]

\* the rules collection
MongoRules == {"r1"}

\* find({"_id": {"$in": rule_ids}}): the rules of the list that exist
FindRules(rule_ids) == SelectSeq(rule_ids, LAMBDA r : r \in MongoRules)

(***************************************************************************)
(* Fallback template resolver (services/templates.py)                      *)
(***************************************************************************)
\* The order of the checks with the template looked at before the hints.
FallbackForTaskTemplateFirst(task_id) ==
    LET task == MongoTasks[task_id] IN
    IF ~task.exists THEN "default: reread the task and recall the rule"
    ELSE IF task.template_id = NoneVal THEN "compare your answer with the sample"
    ELSE IF task.hints # <<>>
    THEN IF task.hints[1].has_text THEN task.hints[1].text
         ELSE "repeat the rule in the textbook"
    ELSE "check the theory of the topic"

FallbackForTask(task_id) ==
    LET task == MongoTasks[task_id] IN
    IF ~task.exists THEN "default: reread the task and recall the rule"
    ELSE IF task.hints # <<>>
    THEN IF task.hints[1].has_text THEN task.hints[1].text
         ELSE "repeat the rule in the textbook"
    ELSE IF task.template_id = NoneVal THEN "compare your answer with the sample"
    ELSE IF task.template_id \notin TemplateIds THEN "check the theory of the topic"
    ELSE IF MongoTemplates[task.template_id].rule_ids = <<>>
    THEN "reread the wording of the question"
    ELSE IF FindRules(MongoTemplates[task.template_id].rule_ids) = <<>>
    THEN "follow the basic rule"
    ELSE "rule reminder"

(***************************************************************************)
(* Orchestrator helpers (services/explanations.py, services/rag.py)        *)
(***************************************************************************)
\* A fallback that leaves the rule_refs as the retriever gave them.
DeriveRuleRefsNoWalk(task_id) == <<>>

\* _derive_rule_refs: task -> template -> rule_ids
DeriveRuleRefs(task_id) ==
    LET task == MongoTasks[task_id] IN
    IF ~task.exists THEN <<>>
    ELSE IF task.template_id = NoneVal THEN <<>>
    ELSE IF task.template_id \notin TemplateIds THEN <<>>
    ELSE MongoTemplates[task.template_id].rule_ids

\* A build_prompt that goes on without the task.
PromptNeverFails(task_id) == FALSE

\* build_prompt: task = find_one(...); if not task: raise ValueError
PromptFails(task_id) == ~MongoTasks[task_id].exists

\* Outcomes of the vector search of _search_rules: it raises; no hit; hits
\* none of which has a description; hits with descriptions and rule ids;
\* hits with descriptions whose payloads carry no rule_id.
SearchOutcomes ==
    {"error", "no_hits", "hits_without_description", "hits",
     "described_hits_without_rule_id"}

\* rule ids carried by the hits of the vector search
HitRefs == <<"r2">>

\* refs: the rule_id of every hit that has one
RefsOfHits(outcome) ==
    IF outcome \in {"hits", "hits_without_description"} THEN HitRefs ELSE <<>>

\* chunks: one line for every hit that has a description
ChunksOfHits(outcome) ==
    IF outcome \in {"hits", "described_hits_without_rule_id"}
    THEN <<"hit: description">> ELSE <<>>

\* template.get("rule_ids", []) if template else []
LocalRefs(task_id) ==
    LET task == MongoTasks[task_id] IN
    IF task.template_id \in TemplateIds
    THEN MongoTemplates[task.template_id].rule_ids
    ELSE <<>>

\* _local_rule_context: one line for every rule of the template that exists
LocalRuleContext(task_id) == FindRules(LocalRefs(task_id))

\* A retriever that keeps the ids of the hits whenever there are any.
SearchRuleRefsHitsFirst(task_id, outcome) ==
    IF outcome = "error" THEN LocalRefs(task_id)
    ELSE IF RefsOfHits(outcome) # <<>> THEN RefsOfHits(outcome)
    ELSE LocalRefs(task_id)

\* rule_refs returned by build_prompt (through _search_rules) for a task
\* that exists.
SearchRuleRefs(task_id, outcome) ==
    IF outcome = "error" THEN LocalRefs(task_id)
    ELSE IF ChunksOfHits(outcome) # <<>> THEN RefsOfHits(outcome)
    ELSE IF LocalRefs(task_id) # <<>> THEN LocalRefs(task_id)    \* local_refs or refs
    ELSE RefsOfHits(outcome)

\* reference_chunks returned by _search_rules
SearchChunks(task_id, outcome) ==
    IF outcome = "error" THEN LocalRuleContext(task_id)
    ELSE IF ChunksOfHits(outcome) # <<>> THEN ChunksOfHits(outcome)
    ELSE LocalRuleContext(task_id)

\* Outcomes of YandexGPTClient.generate: a text, a text that is empty after
\* strip(), or an exception of the named class.  The model may answer the
\* same prompt with another text ("other_text") the next time.
GenerateOutcomes ==
    {"text", "blank_text", "ReadTimeout", "HTTPStatusError", "RuntimeError",
     "ConnectError", "JSONDecodeError"}

GenerateExceptions == GenerateOutcomes \ {"text", "blank_text"}

\* What generate returns: text.strip() of the first alternative, empty when
\* the text was white space only.
GeneratedText(outcome) ==
    IF outcome = "text" THEN "X"
    ELSE IF outcome = "other_text" THEN "Y"
    ELSE IF outcome = "blank_text" THEN ""
    ELSE NoneVal

\* A test for a missing text only.
NoTextWhenNone(explanation_text) == explanation_text = NoneVal

\* if not explanation_text: None (generate not called, or its exception
\* caught) and the empty string
NoText(explanation_text) == explanation_text \in {NoneVal, ""}

\* The classes an exception is an instance of (httpx and builtin hierarchy).
ExceptionClasses(exc) ==
    IF exc = "ReadTimeout"
    THEN {"ReadTimeout", "TimeoutException", "TransportError", "RequestError", "HTTPError"}
    ELSE IF exc = "ConnectError"
    THEN {"ConnectError", "NetworkError", "TransportError", "RequestError", "HTTPError"}
    ELSE IF exc = "HTTPStatusError" THEN {"HTTPStatusError", "HTTPError"}
    ELSE IF exc = "JSONDecodeError" THEN {"JSONDecodeError", "ValueError"}
    ELSE {exc}

\* except (httpx.TimeoutException, httpx.HTTPStatusError, RuntimeError)
Caught(exc) ==
    ExceptionClasses(exc) \cap {"TimeoutException", "HTTPStatusError", "RuntimeError"} # {}

\* if use_llm and self._yandex
UseLlmIgnoringFlag(use_llm, yandex) == yandex

UseLlm(use_llm, yandex) == use_llm /\ yandex

\* The response handle_request returns on a cache hit: the cached one.
HitResponseRestamped(cached) == [cached EXCEPT !.source = "cache"]

HitResponse(cached) == cached

\* if self._settings.cache_enabled (before the lookup and before the write)
CacheLookupAlways(cache_enabled) == TRUE

CacheLookupEnabled(cache_enabled) == cache_enabled

CacheWriteGeneratedOnly(cache_enabled, source) ==
    cache_enabled /\ source = "yandexgpt"

CacheWriteEnabled(cache_enabled, source) == cache_enabled

\* A reader that takes an absent flag for a disabled one.
FlagValueAbsentIsFalse(cached, doc, default) ==
    IF cached # NoneVal THEN cached = "1" ELSE doc = "enabled"

\* FeatureFlagService.is_enabled: the value it returns.
FlagValue(cached, doc, default) ==
    IF cached # NoneVal THEN cached = "1"
    ELSE IF doc = "enabled" THEN TRUE
    ELSE IF doc = "disabled" THEN FALSE
    ELSE default

\* elapsed milliseconds and utcnow() of a finalized response
TookMsValues == {7}

Timestamps == {1, 2}

(***************************************************************************)
(* State                                                                   *)
(***************************************************************************)
VARIABLES
    store,      \* Redis: explanation:cache:<task_id> -> raw value
    written,    \* history: who wrote the current value of each key
    cacheOp,    \* history: the last get, when no write followed it
    settings,   \* Settings and the presence of the generation client
    flagCache,  \* Redis: feature_flag:explanation_yandexgpt_enabled
    flagDoc,    \* Mongo: the feature_flags document of that flag
    req,        \* the handle_request calls in flight, one per worker
    cb,         \* CircuitBreakerMiddleware._state: route -> failures, open_until
    now,        \* time.time(), in seconds
    cbReq,      \* the dispatch calls of the circuit breaker in flight
    cbEvent,    \* history: the last step of a dispatch call
    streak,     \* history: route -> server errors in a row
    rl,         \* Redis: ratelimit:<client_ip> -> count, seconds to live
    rlReq,      \* the dispatch calls of the rate limiter in flight
    rlEvent,    \* history: the last step of the rate limiter
    passed,     \* history: key -> requests passed downstream in its window
    refused,    \* history: key -> a request was rejected: "none", "now", "before"
    corpus,     \* Mongo: the rules collection the worker reads, id -> document
    stream,     \* Redis Stream content:changes, the entries in order
    group,      \* consumer group: entries delivered, entries pending
    index,      \* Qdrant: the rules collection, id -> point
    wk,         \* EmbeddingWorker.run_forever: position, batch, record read
    wkEvent,    \* history: the last step of the worker
    wkHist,     \* history: the last processing, the calls that raised
    sd,         \* on_shutdown: position, connections closed, background tasks
    seenTasks,  \* Redis: seen_tasks:<user_id> -> set of template ids
    tg,         \* the generate_instances calls in flight
    tgEvent,    \* history: the last step of generate_instances
    ff,         \* the is_enabled call in flight
    gpt,        \* the YandexGPTClient.generate call in flight
    win,        \* history: key -> age in seconds of each request passed
    oplog,      \* Mongo: the changes of the collections, in order
    tplIds,     \* Mongo: the ids of the templates collection
    br,         \* changestream_bridge.py main: position, cursor of the watch
    stk,        \* the middleware stack: how far each request in flight has come
    fl          \* the clock of the flag cache: TTL left, and how old what it holds is

cacheVars == <<store, written, cacheOp>>

orchVars == <<settings, flagCache, flagDoc, req>>

breakerVars == <<cb, now, cbReq, cbEvent, streak>>

rateVars == <<rl, rlReq, rlEvent, passed, refused>>

workerVars == <<corpus, stream, group, index, wk, wkEvent, wkHist>>

shutdownVars == <<sd>>

templateVars == <<seenTasks, tg, tgEvent>>

flagVars == <<ff>>

gptVars == <<gpt>>

windowVars == <<win>>

bridgeVars == <<oplog, tplIds, br>>

stackVars == <<stk>>

staleVars == <<fl>>

\* What the operations of one component leave alone.
outsideCache ==
    <<orchVars, breakerVars, rateVars, workerVars, shutdownVars, templateVars,
      flagVars, gptVars, windowVars,
      bridgeVars,
      stackVars,
      staleVars>>

outsideOrch ==
    <<breakerVars, rateVars, workerVars, shutdownVars, templateVars,
      flagVars, gptVars, windowVars,
      bridgeVars,
      stackVars,
      staleVars>>

outsideBreaker ==
    <<cacheVars, orchVars, rateVars, workerVars, shutdownVars, templateVars,
      flagVars, gptVars, windowVars,
      bridgeVars,
      stackVars,
      staleVars>>

outsideRate ==
    <<cacheVars, orchVars, breakerVars, workerVars, shutdownVars, templateVars,
      flagVars, gptVars, windowVars,
      bridgeVars,
      stackVars,
      staleVars>>

outsideWorker ==
    <<cacheVars, orchVars, breakerVars, rateVars, shutdownVars, templateVars,
      flagVars, gptVars, windowVars,
      bridgeVars,
      stackVars,
      staleVars>>

outsideShutdown ==
    <<cacheVars, orchVars, breakerVars, rateVars, templateVars,
      flagVars, gptVars, windowVars,
      bridgeVars,
      stackVars,
      staleVars>>

outsideTemplates ==
    <<cacheVars, orchVars, breakerVars, rateVars, workerVars, shutdownVars,
      flagVars, gptVars, windowVars,
      bridgeVars,
      stackVars,
      staleVars>>

\* The timed reader works on flagCache and flagDoc of orchVars, on ff and
\* on fl.
outsideStale ==
    <<cacheVars, breakerVars, rateVars, workerVars, shutdownVars, templateVars,
      gptVars, windowVars, bridgeVars, stackVars>>

\* is_enabled reads and writes flagCache and flagDoc of orchVars.
outsideFlags ==
    <<cacheVars, breakerVars, rateVars, workerVars, shutdownVars, templateVars,
      gptVars, windowVars,
      bridgeVars,
      stackVars,
      staleVars>>

outsideGpt ==
    <<cacheVars, orchVars, breakerVars, rateVars, workerVars, shutdownVars,
      templateVars, flagVars, windowVars,
      bridgeVars,
      stackVars,
      staleVars>>

\* The bridge reads the rules collection's changes and appends to stream of
\* workerVars.
outsideBridge ==
    <<cacheVars, orchVars, breakerVars, rateVars, shutdownVars,
      templateVars, flagVars, gptVars, windowVars,
      stackVars,
      staleVars>>

\* The stack runs the breaker on breakerVars and the limiter on rl of
\* rateVars.
outsideStack ==
    <<cacheVars, orchVars, workerVars, shutdownVars, templateVars, flagVars,
      gptVars, windowVars, bridgeVars,
      staleVars>>

\* The sequential dispatch reads and writes rl of rateVars.
outsideWindow ==
    <<cacheVars, orchVars, breakerVars, workerVars, shutdownVars,
      templateVars, flagVars, gptVars,
      bridgeVars,
      stackVars,
      staleVars>>

vars == <<store, written, cacheOp, settings, flagCache, flagDoc, req,
          cb, now, cbReq, cbEvent, streak, rl, rlReq, rlEvent, passed, refused,
          corpus, stream, group, index, wk, wkEvent, wkHist, sd,
          seenTasks, tg, tgEvent, ff, gpt, win,
          oplog, tplIds, br,
          stk,
          fl>>

(***************************************************************************)
(* Circuit breaker (middleware.py), as installed by create_app             *)
(***************************************************************************)
\* app.add_middleware(CircuitBreakerMiddleware, failure_threshold=4,
\* recovery_time=20)
failure_threshold == 4

recovery_time == 20

\* request.url.path of the routes of the application
Routes == {"/v1/explanations/", "/health"}

\* The dispatch coroutines that may be in flight together.
Clients == {"c1", "c2"}

\* The clock advances in steps of TickStep seconds, up to MaxTime.
TickStep == 10

MaxTime == 50

\* self._state.setdefault(key, {"failures": 0, "open_until": 0.0})
ClosedState == [failures |-> 0, open_until |-> 0]

\* if state["open_until"] > now: reject with 503
IsOpen(state, t) == state.open_until > t

\* _record_failure, called at time t
RecordFailureOffByOne(state, t) ==
    IF state.failures + 1 > failure_threshold
    THEN [failures |-> 0, open_until |-> t + recovery_time]
    ELSE [failures |-> state.failures + 1, open_until |-> state.open_until]

RecordFailure(state, t) ==
    IF state.failures + 1 >= failure_threshold
    THEN [failures |-> 0, open_until |-> t + recovery_time]
    ELSE [failures |-> state.failures + 1, open_until |-> state.open_until]

\* else: state["failures"] = 0
RecordSuccessKeepingCount(state) == state

RecordSuccess(state) == [state EXCEPT !.failures = 0]

\* What call_next yields: a response with a status code, or an exception.
DownstreamOutcomes ==
    {[raised |-> FALSE, status |-> code] : code \in {200, 429, 500}}
        \cup {[raised |-> TRUE, status |-> 500]}

\* A breaker that counts every error status, client errors included.
IsAnyError(outcome) == outcome.raised \/ outcome.status >= 400

\* response.status_code >= 500, or an exception was raised
IsServerError(outcome) == outcome.raised \/ outcome.status >= 500

IdleClient == [pc |-> "idle", route |-> "", status |-> 0, downstream |-> FALSE]

NoEvent ==
    [kind |-> "none", route |-> "", at |-> 0, before |-> ClosedState,
     after |-> ClosedState, streak |-> 0]

InitBreakerIdle ==
    /\ cb = [r \in Routes |-> ClosedState]
    /\ now = TickStep
    /\ cbReq = [c \in Clients |-> IdleClient]
    /\ cbEvent = NoEvent
    /\ streak = [r \in Routes |-> 0]

(***************************************************************************)
(* Rate limiter (middleware.py), as installed by create_app                *)
(***************************************************************************)
\* RateLimitMiddleware(app, limit, window_seconds): create_app passes
\* limit=120; the model takes a small limit.
limit == 2

\* app.add_middleware(RateLimitMiddleware, limit=120, window_seconds=60)
window_seconds == 60

\* The time to live of the keys is followed in steps of RateStep seconds.
RateStep == 20

\* Increments beyond the limit that the model follows within one window.
MaxExtra == 2

\* request.client.host, or "unknown" when the request has no client
Addresses == {"10.0.0.1", "unknown"}

\* key = f"ratelimit:{client_ip}"
RateKey(client_ip) == <<"ratelimit", client_ip>>

RateKeys == {RateKey(a) : a \in Addresses}

\* The dispatch coroutines of the rate limiter that may be in flight together.
RateCallers == {"d1", "d2"}

\* A Redis key without expiry (TTL -1).
NoExpiry == -1

\* A key that does not exist reads as count 0.
AbsentCounter == [count |-> 0, ttl |-> NoExpiry]

\* Redis INCR of a variant that also renews the expiry.
IncrRenewing(entry) == [count |-> entry.count + 1, ttl |-> window_seconds]

\* An increment computed from a value read before another client's write:
\* the second of two increments is lost.
IncrLosingUpdate(entry) ==
    IF entry.count = 1 THEN entry ELSE [entry EXCEPT !.count = @ + 1]

\* Redis INCR: creates the key with value 1 and no expiry, keeps the expiry
\* of a key that exists.
Incr(entry) == [entry EXCEPT !.count = @ + 1]

\* Redis EXPIRE key seconds: no effect on a key that does not exist.
Expire(entry, seconds) ==
    IF entry.count = 0 THEN entry ELSE [entry EXCEPT !.ttl = seconds]

\* Redis deletes a key when its time to live has run out.
Elapse(entry, dt) ==
    IF entry.ttl = NoExpiry THEN entry
    ELSE IF entry.ttl - dt <= 0 THEN AbsentCounter
    ELSE [entry EXCEPT !.ttl = @ - dt]

\* if count > self._limit: reject
ExceedsInclusive(count) == count >= limit

Exceeds(count) == count > limit

\* JSONResponse({"detail": "Too many requests"}, status_code=429)
TooManyRequests ==
    [status |-> 429, body |-> {"detail"}, headers |-> {"content-type", "content-length"}]

\* JSONResponse({"detail": ..., "retry_at": state["open_until"]}, status_code=503)
CircuitOpen ==
    [status |-> 503, body |-> {"detail", "retry_at"},
     headers |-> {"content-type", "content-length"}]

\* What call_next yields to the rate limiter: the ExplanationResponse of the
\* route, or the exception that left the route.
RouteOutcomes ==
    {[raised |-> FALSE,
      response |-> <<[status |-> 200,
                      body |-> {"explanation", "rule_refs", "source",
                                "took_ms", "generated_at"},
                      headers |-> {"content-type", "content-length"}]>>],
     [raised |-> TRUE, response |-> <<>>]}

IdleDispatch == [pc |-> "idle", key |-> RateKey("unknown"), count |-> 0]

NoRateEvent ==
    [kind |-> "none", key |-> RateKey("unknown"), count |-> 0,
     response |-> <<>>, called |-> FALSE]

InitRateIdle ==
    /\ rl = [k \in RateKeys |-> AbsentCounter]
    /\ rlReq = [c \in RateCallers |-> IdleDispatch]
    /\ rlEvent = NoRateEvent
    /\ passed = [k \in RateKeys |-> 0]
    /\ refused = [k \in RateKeys |-> "none"]

(***************************************************************************)
(* Embedding worker (workers/embedding_worker.py) and what it works on     *)
(***************************************************************************)
Min(a, b) == IF a <= b THEN a ELSE b

\* document ids of the rules collection
RuleIds == {"r1"}

\* A document of the rules collection.  The worker reads name, description,
\* slug, metadata.difficulty and status.
RuleDoc(name, status) ==
    [name |-> name, description |-> "desc", slug |-> "slug",
     difficulty |-> "easy", status |-> status]

RuleDocs ==
    {RuleDoc("n1", "active"), RuleDoc("n2", "active"), RuleDoc("n1", "deprecated")}

\* Entries the stream can hold in the model.
MaxEvents == 3

\* Calls of the worker (Mongo, Qdrant, xack) that raise, in one behaviour.
MaxFailures == 1

\* xreadgroup(..., count=10, ...)
BatchSize == 10

\* The payload of a stream entry, as the worker reads it.
ChangeEvent(collection, document_id, action, status) ==
    [collection |-> collection, document_id |-> document_id,
     action |-> action, status |-> status]

\* Entries that are no rule change: another collection, no document id.
ForeignEvents ==
    {ChangeEvent("templates", "tpl1", "updated", NoneVal),
     ChangeEvent("rules", "", "updated", NoneVal)}

\* text = f"{name}\n{description}"; embed(text) is a function of the text.
Embed(text) == <<"vector", text>>

\* rest.PointStruct(id=document_id, vector=vector, payload={...})
PointOf(document_id, rule) ==
    [id |-> document_id,
     vector |-> Embed(<<rule.name, rule.description>>),
     payload |-> [rule_id |-> document_id, name |-> rule.name,
                  description |-> rule.description, slug |-> rule.slug,
                  difficulty |-> rule.difficulty]]

\* qdrant.upsert(points=[point]): the point replaces the one with its id
Upsert(idx, point) == [idx EXCEPT ![point.id] = <<point>>]

\* A delete that leaves a marker when there is no point to remove.
DeletePointMarking(idx, document_id) ==
    IF idx[document_id] = <<>>
    THEN [idx EXCEPT ![document_id] =
                <<PointOf(document_id, RuleDoc("removed", "deleted"))>>]
    ELSE [idx EXCEPT ![document_id] = <<>>]

\* qdrant.delete(points_selector=PointIdsList(points=[document_id]))
DeletePoint(idx, document_id) == [idx EXCEPT ![document_id] = <<>>]

\* A first step that looks at the action only.
FirstStepByActionOnly(payload) ==
    IF payload.collection # "rules" \/ payload.document_id = "" THEN "skip"
    ELSE IF payload.action \in {"deleted"} THEN "delete"
    ELSE "find"

\* _process up to its first await: "skip" (not a rule change), "delete"
\* (action deleted or status deprecated), or "find" (find_one)
FirstStep(payload) ==
    IF payload.collection # "rules" \/ payload.document_id = "" THEN "skip"
    ELSE IF payload.action \in {"deleted"} \/ payload.status = "deprecated"
    THEN "delete"
    ELSE "find"

\* A find_one branch that removes the point only of a missing rule.
AfterFindKeepingDeprecated(rule) == IF rule = <<>> THEN "delete" ELSE "upsert"

\* what follows find_one: delete when the rule is missing or deprecated,
\* else embed and upsert
AfterFind(rule) ==
    IF rule = <<>> THEN "delete"
    ELSE IF rule[1].status = "deprecated" THEN "delete"
    ELSE "upsert"

\* run_forever after _process returned or raised: xack only after a return
AfterProcessAlwaysAck(ok) == "ack"

AfterProcess(ok) == IF ok THEN "ack" ELSE "next"

EmptyIndex == [id \in RuleIds |-> <<>>]

\* history: no processing completed since the rules last changed
NoProcessing == [payload |-> <<>>, index |-> EmptyIndex]

IdleWorker == [pc |-> "poll", batch |-> <<>>, todo |-> "none", rule |-> <<>>,
               returned |-> FALSE, again |-> FALSE]

NoWorkerEvent ==
    [kind |-> "none", entry |-> 0, again |-> FALSE, same |-> FALSE,
     unchanged |-> FALSE, returned |-> FALSE, logged |-> FALSE,
     rest |-> <<>>]

InitWorkerIdle ==
    /\ corpus = [id \in RuleIds |-> <<>>]
    /\ stream = <<>>
    /\ group = [delivered |-> 0, pending |-> {}]
    /\ index = EmptyIndex
    /\ wk = IdleWorker
    /\ wkEvent = NoWorkerEvent
    /\ wkHist = [last |-> NoProcessing, dirty |-> FALSE, failures |-> 0]

(***************************************************************************)
(* Service lifecycle (app.py): what on_startup opened and started          *)
(***************************************************************************)
\* The service as on_startup leaves it: Mongo, Redis and Qdrant connected,
\* the generation client only when it is configured (llm), the embedding
\* task and the scheduler started.
Serving(llm) ==
    [pc |-> "serving", llm |-> llm, closed |-> {}, cancelRequested |-> FALSE,
     scheduler |-> "running"]

InitShutdownIdle == sd = Serving(FALSE)

\* The embedding task runs until CancelledError leaves run_forever.
WorkerRunning == wk.pc # "cancelled"

(***************************************************************************)
(* Template generator (template_generator/service.py, repository.py)       *)
(***************************************************************************)
\* TemplateRepository.READY_STATUSES
READY_STATUSES == {"ready", "published"}

\* Mongo: the templates collection the generator reads.
GeneratorTemplates ==
    {[id |-> "tA", level_id |-> "L1", status |-> "ready"],
     [id |-> "tB", level_id |-> "L1", status |-> "published"],
     [id |-> "tC", level_id |-> "L1", status |-> "draft"],
     [id |-> "tD", level_id |-> "L2", status |-> "draft"]}

GeneratorTemplateIds == {d.id : d \in GeneratorTemplates}

\* payload.level_id; the empty string makes _parse_object_id raise ValueError
LevelIds == {"L1", "L2", ""}

\* payload.user_id: None, the empty string, or the id of a user
UserIds == {NoneVal, "", "u1"}

\* the users that have a seen_tasks:<user_id> key
KnownUsers == {"u1"}

\* Largest count of the requests of the model.
MaxCount == 2

\* Settings.template_generation_limit
template_generation_limit == 20

\* GenerateInstancesRequest.clamp_count
ClampCount(value) == Min(value, template_generation_limit)

\* list_ready_templates: {"level_id": ..., "status": {"$in": READY_STATUSES}}
ListReadyTemplates(level_id) ==
    {d.id : d \in {t \in GeneratorTemplates :
                      t.level_id = level_id /\ t.status \in READY_STATUSES}}

\* "if not user_id": None and the empty string are no user
HasUser(user_id) == user_id \notin {NoneVal, ""}

\* A loop that never skips a template.
SkipsNothing(user_id, template_id, seen_templates) == FALSE

\* if payload.user_id and template.template_id in seen_templates: continue
Skips(user_id, template_id, seen_templates) ==
    HasUser(user_id) /\ template_id \in seen_templates

\* The generate_instances coroutines.
GeneratorCallers == {"g1", "g2"}

IdleCall ==
    [pc |-> "idle", level_id |-> "", user_id |-> NoneVal, count |-> 0,
     templates |-> {}, loaded |-> {}, seen_templates |-> {}, candidates |-> {},
     instances |-> <<>>, status |-> 0]

NoGeneratorEvent ==
    [kind |-> "none", caller |-> "g1", template_id |-> "", fresh |-> FALSE]

InitTemplatesIdle ==
    /\ seenTasks = [u \in KnownUsers |-> {}]
    /\ tg = [c \in GeneratorCallers |-> IdleCall]
    /\ tgEvent = NoGeneratorEvent

(***************************************************************************)
(* Feature flag reader (services/feature_flags.py)                         *)
(***************************************************************************)
\* Settings.feature_flag_cache_ttl_seconds
feature_flag_cache_ttl_seconds == 300

\* FeatureFlagService._key
FlagKey(flag_name) == <<"feature_flag", flag_name>>

\* the flag handle_request resolves
FlagName == "explanation_yandexgpt_enabled"

\* "1" if value else "0"
FlagText(value) == IF value THEN "1" ELSE "0"

\* No is_enabled call is running.
IdleFlagCall ==
    [pc |-> "idle", flag_name |-> "", default |-> FALSE, cached |-> NoneVal,
     doc |-> NoneVal, value |-> FALSE, setex |-> <<>>]

InitFlagsIdle == ff = IdleFlagCall

(***************************************************************************)
(* Generation client (clients/yandex_gpt.py)                               *)
(***************************************************************************)
\* Settings.yandexgpt_api_key and yandexgpt_folder_id: None, empty, or set
Credentials == {NoneVal, "", "set"}

\* A client that asks for the API key only.
UnconfiguredByKeyOnly(api_key, folder_id) == api_key \in {NoneVal, ""}

\* not api_key or not folder_id
Unconfigured(api_key, folder_id) ==
    api_key \in {NoneVal, ""} \/ folder_id \in {NoneVal, ""}

\* A text is the sequence of its characters.
Whitespace == {" ", "\n"}

RECURSIVE LStrip(_)
LStrip(text) ==
    IF text # <<>> /\ Head(text) \in Whitespace THEN LStrip(Tail(text)) ELSE text

RECURSIVE RStrip(_)
RStrip(text) ==
    IF text # <<>> /\ text[Len(text)] \in Whitespace
    THEN RStrip(SubSeq(text, 1, Len(text) - 1)) ELSE text

\* str.strip()
Strip(text) == RStrip(LStrip(text))

\* One member of "alternatives": its message (absent, null or an object)
\* and the text of the message (absent, null or a string)
NoMessage == [message |-> <<>>]

Message(text) == [message |-> <<[text |-> text]>>]

\* response.json(): "result" is absent, null or an object with its
\* "alternatives" (an absent list reads as the empty one)
Completion(result, alternatives) ==
    [http |-> "ok", result |-> result, alternatives |-> alternatives]

Completions ==
    {Completion("missing", <<>>), Completion("null", <<>>),
     Completion("object", <<>>),
     Completion("object", <<NoMessage>>),
     Completion("object", <<Message(<<>>)>>),
     Completion("object", <<Message(<< <<>> >>)>>),
     Completion("object", <<Message(<< <<" ", "\n">> >>)>>),
     Completion("object", <<Message(<< <<" ", "X", " ", "Y", "\n">> >>)>>),
     Completion("object", <<Message(<< <<"X">> >>)>>),
     Completion("object", <<Message(<< <<"X", " ">> >>), Message(<< <<"Z">> >>)>>),
     Completion("object", <<NoMessage, Message(<< <<"Z">> >>)>>)}

\* What "await client.post" and raise_for_status yield without a JSON body.
HttpFailures ==
    {[http |-> h, result |-> "missing", alternatives |-> <<>>] :
        h \in {"ReadTimeout", "ConnectError", "HTTPStatusError", "JSONDecodeError"}}

NotPosted == [http |-> "none", result |-> "missing", alternatives |-> <<>>]

\* temperature and max_tokens of a call: None, zero, or a value
OptionValues == {NoneVal, "zero", "value"}

\* temperature or settings.yandexgpt_temperature
OptionOrDefault(value) == IF value \in {NoneVal, "zero"} THEN "default" ELSE value

Raised(error, reason) ==
    [kind |-> "raised", text |-> <<>>, error |-> error, reason |-> reason]

Returned(text) ==
    [kind |-> "returned", text |-> text, error |-> "", reason |-> ""]

\* generate after the post: raise_for_status, response.json(), and the
\* reading of the first alternative
ReadCompletion(response) ==
    IF response.http # "ok" THEN Raised(response.http, "transport")
    ELSE IF response.result = "null" THEN Raised("AttributeError", "result is null")
    ELSE IF response.alternatives = <<>>
    THEN Raised("RuntimeError", "no alternatives")
    ELSE LET message == response.alternatives[1].message IN
         IF message = <<>> \/ message[1].text = <<>> \/ message[1].text[1] = <<>>
         THEN Raised("RuntimeError", "missing text")
         ELSE Returned(Strip(message[1].text[1]))

\* A generate call of a client with the given credentials.
GenerationCall(api_key, folder_id) ==
    [pc |-> "idle", api_key |-> api_key, folder_id |-> folder_id,
     temperature |-> NoneVal, max_tokens |-> NoneVal,
     body |-> <<>>, response |-> NotPosted, outcome |-> Raised("", "")]

\* No generate call is running.
IdleGeneration == GenerationCall(NoneVal, NoneVal)

InitGptIdle == gpt = IdleGeneration

\* No request has passed yet.
NoPasses == [k \in RateKeys |-> <<>>]

InitWindowIdle == win = NoPasses

(***************************************************************************)
(* Change-stream bridge (infra/scripts/changestream_bridge.py)             *)
(***************************************************************************)
\* Changes of the collections that the model follows in one behaviour.
MaxChanges == 3

\* change['operationType'] of the operations the bridge maps
Operations == {"insert", "update", "replace", "delete"}

\* action_map.get(operation, operation)
ActionOf(operation) ==
    IF operation = "insert" THEN "created"
    ELSE IF operation \in {"update", "replace"} THEN "updated"
    ELSE IF operation = "delete" THEN "deleted"
    ELSE operation

\* A change of a collection, as a change stream on it reports it.
Change(collection, document_id, operation) ==
    [collection |-> collection, documentKey |-> document_id,
     operationType |-> operation]

\* event_data of publish_change_event, the fields the worker reads: the
\* bridge sends no status.
EventOf(change) ==
    ChangeEvent(change.collection, change.documentKey,
                ActionOf(change.operationType), NoneVal)

\* while True: try: watch_templates(db, redis_client): the only watcher
\* main() calls.
WatchedByMain == {"templates"}

\* The bridge before main() runs.
BridgeNotStarted == [pc |-> "main", cursor |-> 0]

InitBridgeIdle ==
    /\ oplog = <<>>
    /\ tplIds = {}
    /\ br = BridgeNotStarted

(***************************************************************************)
(* The middleware stack of create_app (app.py)                             *)
(***************************************************************************)
\* A request that is not between the breaker and its way back.
\* found: the failure counter of the route when call_next came back
NotInStack == [stage |-> "none", address |-> "", outcome |-> <<>>, found |-> 0]

InitStackIdle == stk = [c \in Clients |-> NotInStack]

(***************************************************************************)
(* The flag cache in time (services/feature_flags.py)                      *)
(***************************************************************************)
\* clock: seconds run; ttl: seconds feature_flag:<name> has left, 0 without
\* the key; age: seconds since its setex; lag: seconds its writer held the
\* store's answer before the setex; held: seconds the running call has held
\* the store's answer; since: seconds since the flag document changed;
\* stale: the running call was given a cached value the store contradicts.
FlagClockZero ==
    [clock |-> 0, ttl |-> 0, age |-> 0, lag |-> 0, held |-> 0, since |-> 0,
     stale |-> FALSE]

InitStaleIdle == fl = FlagClockZero

\* The coroutines that run handle_request.
Workers == {"w1", "w2"}

\* A worker that handles no request.
IdleRequest ==
    [pc |-> "idle", payload |-> <<>>, seen |-> AbsentRaw, rule_refs |-> <<>>,
     search |-> "", retrieved |-> <<>>, chunks |-> <<>>,
     use_llm |-> FALSE, text |-> "", source |-> "fallback",
     response |-> <<>>, calls |-> {}, path |-> "", error |-> "",
     counted |-> "", generated |-> "", wrote |-> <<>>, flagFalse |-> FALSE]

InitOrchIdle ==
    /\ settings = [cache_enabled |-> TRUE, explanation_yandexgpt_enabled |-> TRUE,
                   yandex |-> TRUE]
    /\ flagCache = NoneVal
    /\ flagDoc = "missing"
    /\ req = [w \in Workers |-> IdleRequest]

NotWritten == [by |-> "none", payload |-> <<>>, response |-> <<>>]

NoCacheOp ==
    [op |-> "none", payload |-> <<>>, raw |-> AbsentRaw, result |-> GetNone,
     before |-> NotWritten]

\* Values another client of the shared Redis instance may leave under a key:
\* a plain string, the empty string, JSON that is not an object, an object
\* without members, an object with a fingerprint and no response.
ExternalValues(k) ==
    {TextRaw("legacy explanation"), TextRaw(""), JsonOtherRaw,
     JsonObjectRaw(<<>>, <<>>),
     JsonObjectRaw(<<Fingerprint(BaseRequest(k))>>, <<>>)}

InitStore ==
    /\ store = [k \in TaskIds |-> AbsentRaw]
    /\ written = [k \in TaskIds |-> NotWritten]
    /\ cacheOp = NoCacheOp

InitCache ==
    /\ InitStore /\ InitOrchIdle /\ InitBreakerIdle /\ InitRateIdle
    /\ InitWorkerIdle /\ InitShutdownIdle /\ InitTemplatesIdle
    /\ InitFlagsIdle /\ InitGptIdle /\ InitWindowIdle /\ InitBridgeIdle /\ InitStackIdle /\ InitStaleIdle

(***************************************************************************)
(* Operations of the cache                                                 *)
(***************************************************************************)
\* await cache.set(payload, response): setex(key, ttl, document)
CacheSetOp(payload, response) ==
    LET k == Key(payload.task_id) IN
    /\ store' = [store EXCEPT ![k] = SetDocument(payload, response)]
    /\ written' = [written EXCEPT ![k] =
                     [by |-> "set", payload |-> <<payload>>,
                      response |-> <<response>>]]
    /\ cacheOp' = NoCacheOp
    /\ UNCHANGED outsideCache

\* await cache.get(payload)
CacheGetOp(payload) ==
    LET k == Key(payload.task_id) IN
    /\ cacheOp' = [op |-> "get", payload |-> <<payload>>, raw |-> store[k],
                   result |-> CacheGet(store[k], payload),
                   before |-> written[k]]
    /\ UNCHANGED <<store, written>>
    /\ UNCHANGED outsideCache

\* Another client of the Redis instance writes the key.
ExternalWrite(k, raw) ==
    /\ store' = [store EXCEPT ![k] = raw]
    /\ written' = [written EXCEPT ![k] =
                     [by |-> "external", payload |-> <<>>, response |-> <<>>]]
    /\ cacheOp' = NoCacheOp
    /\ UNCHANGED outsideCache

\* The TTL given to setex runs out: Redis deletes the key.
KeyExpires(k) ==
    /\ store[k].kind # "absent"
    /\ store' = [store EXCEPT ![k] = AbsentRaw]
    /\ written' = [written EXCEPT ![k] =
                     [by |-> "expired", payload |-> <<>>, response |-> <<>>]]
    /\ cacheOp' = NoCacheOp
    /\ UNCHANGED outsideCache

NextCache ==
    \/ \E payload \in CacheRequests, response \in CacheResponses :
          CacheSetOp(payload, response)
    \/ \E payload \in CacheRequests : CacheGetOp(payload)
    \/ \E k \in CacheTaskIds : \E raw \in ExternalValues(k) : ExternalWrite(k, raw)
    \/ \E k \in CacheTaskIds : KeyExpires(k)

SpecCache == InitCache /\ [][NextCache]_vars

(***************************************************************************)
(* Explanation orchestrator: ExplanationService.handle_request             *)
(* One action per await of the coroutine; the code between two awaits runs *)
(* without interleaving on the event loop.                                 *)
(***************************************************************************)
OrchTaskIds == {"t1", "t3"}

\* SpecOrch serves one request at a time.
OrchWorkers == {"w1"}

OrchRequests ==
    {BaseRequest("t1"), [BaseRequest("t1") EXCEPT !.user_errors = <<"e1">>],
     BaseRequest("t3")}

\* An entry an earlier run of the service (cache enabled, generation client
\* configured) may have left in Redis, its TTL still running.
EarlierEntry ==
    SetDocument(BaseRequest("t1"), MkResponse("X", <<"r2">>, "yandexgpt", 7, 1))

SettingsSpace ==
    [cache_enabled : BOOLEAN, explanation_yandexgpt_enabled : BOOLEAN,
     yandex : BOOLEAN]

InitOrch ==
    /\ \E raw \in {AbsentRaw, EarlierEntry} :
          store = [k \in TaskIds |-> IF k = "t1" THEN raw ELSE AbsentRaw]
    /\ written = [k \in TaskIds |-> NotWritten]
    /\ cacheOp = NoCacheOp
    /\ settings \in SettingsSpace
    /\ flagCache = NoneVal
    /\ flagDoc \in {"missing", "enabled", "disabled"}
    /\ req = [w \in Workers |-> IdleRequest]
    /\ InitBreakerIdle
    /\ InitRateIdle
    /\ InitWorkerIdle
    /\ InitShutdownIdle
    /\ InitTemplatesIdle
    /\ InitFlagsIdle /\ InitGptIdle /\ InitWindowIdle /\ InitBridgeIdle /\ InitStackIdle /\ InitStaleIdle

FlagNow == FlagValue(flagCache, flagDoc, settings.explanation_yandexgpt_enabled)

InFlight(w) == req[w].pc \notin {"idle", "done", "raised"}

Payload(w) == req[w].payload[1]

\* _finalize_response followed by "if cache_enabled: await cache.set"
AfterFinalize(source) ==
    IF CacheWriteEnabled(settings.cache_enabled, source) THEN "cache_set" ELSE "done"

\* handle_request is called: start = perf_counter(); if cache_enabled: ...
Start(w, payload) ==
    /\ req[w].pc = "idle"
    /\ req' = [req EXCEPT ![w] =
                 [IdleRequest EXCEPT
                    !.pc = IF CacheLookupEnabled(settings.cache_enabled)
                           THEN "cache_get" ELSE "build_prompt",
                    !.payload = <<payload>>,
                    !.flagFalse = ~FlagNow]]
    /\ UNCHANGED <<cacheVars, settings, flagCache, flagDoc>>
    /\ UNCHANGED outsideOrch

\* cached = await self._cache.get(payload); if cached: return cached
DoCacheGet(w) ==
    /\ req[w].pc = "cache_get"
    /\ LET raw == store[Key(Payload(w).task_id)]
           r == CacheGet(raw, Payload(w)) IN
       req' = [req EXCEPT ![w] =
                 IF r.kind = "error"
                 THEN [@ EXCEPT !.pc = "raised", !.error = r.error, !.seen = raw,
                                !.calls = @ \cup {"cache.get"}]
                 ELSE IF r.kind = "response"
                 THEN [@ EXCEPT !.pc = "done", !.seen = raw, !.path = "hit",
                                !.response = <<HitResponse(r.response[1])>>,
                                !.calls = @ \cup {"cache.get", "CACHE_HITS.inc"}]
                 ELSE [@ EXCEPT !.pc = "build_prompt", !.seen = raw,
                                !.calls = @ \cup {"cache.get", "CACHE_MISSES.inc"}]]
    /\ UNCHANGED <<cacheVars, settings, flagCache, flagDoc>>
    /\ UNCHANGED outsideOrch

\* prompt, rule_refs = await self._rag.build_prompt(payload)
BuildPrompt(w) ==
    /\ req[w].pc = "build_prompt"
    /\ \E outcome \in SearchOutcomes :
         req' = [req EXCEPT ![w] =
                   IF PromptFails(Payload(w).task_id)
                   THEN [@ EXCEPT !.pc = "prompt_failed",
                                  !.calls = @ \cup {"rag.build_prompt"}]
                   ELSE [@ EXCEPT !.pc = "flag_check", !.search = outcome,
                                  !.rule_refs = SearchRuleRefs(Payload(w).task_id, outcome),
                                  !.retrieved = SearchRuleRefs(Payload(w).task_id, outcome),
                                  !.chunks = SearchChunks(Payload(w).task_id, outcome),
                                  !.calls = @ \cup {"rag.build_prompt"}]]
    /\ UNCHANGED <<cacheVars, settings, flagCache, flagDoc>>
    /\ UNCHANGED outsideOrch

\* except ValueError: explanation = await fallback_for_task(task_id);
\* return self._finalize_response(..., rule_refs=[], source="fallback")
PromptFailureFallback(w) ==
    /\ req[w].pc = "prompt_failed"
    /\ \E ms \in TookMsValues, at \in Timestamps :
         req' = [req EXCEPT ![w] =
                   [@ EXCEPT !.pc = "done", !.path = "prompt_failure",
                             !.text = FallbackForTask(Payload(w).task_id),
                             !.response =
                                <<MkResponse(FallbackForTask(Payload(w).task_id),
                                             <<>>, "fallback", ms, at)>>,
                             !.calls = @ \cup {"templates.fallback_for_task"}]]
    /\ UNCHANGED <<cacheVars, settings, flagCache, flagDoc>>
    /\ UNCHANGED outsideOrch

\* use_llm = await self._feature_flags.is_enabled(name, default);
\* if use_llm and self._yandex: ...
ResolveFlag(w) ==
    /\ req[w].pc = "flag_check"
    /\ flagCache' = IF flagCache # NoneVal THEN flagCache
                    ELSE IF FlagNow THEN "1" ELSE "0"
    /\ req' = [req EXCEPT ![w] =
                 [@ EXCEPT !.pc = IF UseLlm(FlagNow, settings.yandex)
                                  THEN "generate" ELSE "fallback",
                           !.path = IF UseLlm(FlagNow, settings.yandex)
                                    THEN "" ELSE "llm_disabled",
                           !.use_llm = FlagNow,
                           !.calls = @ \cup {"feature_flags.is_enabled"}]]
    /\ UNCHANGED <<cacheVars, settings, flagDoc>>
    /\ UNCHANGED outsideOrch

\* explanation_text = await self._yandex.generate(prompt), its except
\* clause, and, for a non-empty text, _finalize_response.
Generate(w, outcome) ==
    /\ req[w].pc = "generate"
    /\ \E ms \in TookMsValues, at \in Timestamps :
         req' = [req EXCEPT ![w] =
                   IF GeneratedText(outcome) # NoneVal /\ ~NoText(GeneratedText(outcome))
                   THEN [@ EXCEPT !.pc = AfterFinalize("yandexgpt"),
                                  !.path = "generated", !.generated = outcome,
                                  !.text = GeneratedText(outcome),
                                  !.source = "yandexgpt",
                                  !.response =
                                     <<MkResponse(GeneratedText(outcome),
                                                  req[w].rule_refs,
                                                  "yandexgpt", ms, at)>>,
                                  !.calls = @ \cup {"yandex.generate"}]
                   ELSE IF GeneratedText(outcome) # NoneVal
                   THEN [@ EXCEPT !.pc = "fallback", !.path = "llm_empty",
                                  !.generated = outcome, !.source = "yandexgpt",
                                  !.calls = @ \cup {"yandex.generate"}]
                   ELSE IF Caught(outcome)
                   THEN [@ EXCEPT !.pc = "fallback", !.path = "llm_failed",
                                  !.generated = outcome, !.counted = outcome,
                                  !.calls = @ \cup {"yandex.generate",
                                                    "YANDEXGPT_ERRORS.inc"}]
                   ELSE [@ EXCEPT !.pc = "raised", !.path = "llm_failed",
                                  !.generated = outcome, !.error = outcome,
                                  !.calls = @ \cup {"yandex.generate"}]]
    /\ UNCHANGED <<cacheVars, settings, flagCache, flagDoc>>
    /\ UNCHANGED outsideOrch

\* if not explanation_text: fallback_for_task, _derive_rule_refs,
\* source = "fallback"; then _finalize_response.
Fallback(w) ==
    /\ req[w].pc = "fallback"
    /\ \E ms \in TookMsValues, at \in Timestamps :
         LET t == Payload(w).task_id
             refs == IF req[w].rule_refs = <<>> THEN DeriveRuleRefs(t)
                     ELSE req[w].rule_refs IN
         req' = [req EXCEPT ![w] =
                   [@ EXCEPT !.pc = AfterFinalize("fallback"),
                             !.text = FallbackForTask(t), !.source = "fallback",
                             !.rule_refs = refs,
                             !.response =
                                <<MkResponse(FallbackForTask(t), refs, "fallback", ms, at)>>,
                             !.calls = @ \cup
                                (IF req[w].rule_refs = <<>>
                                 THEN {"templates.fallback_for_task", "_derive_rule_refs"}
                                 ELSE {"templates.fallback_for_task"})]]
    /\ UNCHANGED <<cacheVars, settings, flagCache, flagDoc>>
    /\ UNCHANGED outsideOrch

\* await self._cache.set(payload, response); return response
DoCacheSet(w) ==
    /\ req[w].pc = "cache_set"
    /\ LET k == Key(Payload(w).task_id)
           doc == SetDocument(Payload(w), req[w].response[1]) IN
       /\ store' = [store EXCEPT ![k] = doc]
       /\ written' = [written EXCEPT ![k] =
                        [by |-> "set", payload |-> req[w].payload,
                         response |-> req[w].response]]
       /\ req' = [req EXCEPT ![w] =
                    [@ EXCEPT !.pc = "done", !.wrote = <<doc>>,
                              !.calls = @ \cup {"cache.set"}]]
    /\ UNCHANGED <<cacheOp, settings, flagCache, flagDoc>>
    /\ UNCHANGED outsideOrch

\* The caller has the response (or the exception); the worker is free again.
Return(w) ==
    /\ req[w].pc \in {"done", "raised"}
    /\ req' = [req EXCEPT ![w] = IdleRequest]
    /\ UNCHANGED <<cacheVars, settings, flagCache, flagDoc>>
    /\ UNCHANGED outsideOrch

\* The flag's value changed (or did not): requests in flight for which the
\* flag resolved false so far keep that only if it still does.
FlagFalseUpdate(nowFalse) ==
    [w \in Workers |->
        IF InFlight(w) THEN [req[w] EXCEPT !.flagFalse = @ /\ nowFalse]
        ELSE req[w]]

\* An operator changes the feature flag document in Mongo.
FlagDocChange(v) ==
    /\ flagDoc # v
    /\ flagDoc' = v
    /\ req' = FlagFalseUpdate(
                ~FlagValue(flagCache, v, settings.explanation_yandexgpt_enabled))
    /\ UNCHANGED <<cacheVars, settings, flagCache>>
    /\ UNCHANGED outsideOrch

\* The TTL of feature_flag:<name> runs out.
FlagCacheExpires ==
    /\ flagCache # NoneVal
    /\ flagCache' = NoneVal
    /\ req' = FlagFalseUpdate(
                ~FlagValue(NoneVal, flagDoc, settings.explanation_yandexgpt_enabled))
    /\ UNCHANGED <<cacheVars, settings, flagDoc>>
    /\ UNCHANGED outsideOrch

NextOrch ==
    \/ \E w \in OrchWorkers, payload \in OrchRequests : Start(w, payload)
    \/ \E w \in OrchWorkers : DoCacheGet(w)
    \/ \E w \in OrchWorkers : BuildPrompt(w)
    \/ \E w \in OrchWorkers : PromptFailureFallback(w)
    \/ \E w \in OrchWorkers : ResolveFlag(w)
    \/ \E w \in OrchWorkers, outcome \in GenerateOutcomes : Generate(w, outcome)
    \/ \E w \in OrchWorkers : Fallback(w)
    \/ \E w \in OrchWorkers : DoCacheSet(w)
    \/ \E w \in OrchWorkers : Return(w)
    \/ \E v \in {"missing", "enabled", "disabled"} : FlagDocChange(v)
    \/ FlagCacheExpires
    \/ \E k \in OrchTaskIds : KeyExpires(k)

SpecOrch == InitOrch /\ [][NextOrch]_vars

(***************************************************************************)
(* handle_request with caching disabled by configuration, for every kind   *)
(* of task of the document store.                                          *)
(***************************************************************************)
FallbackRequests == {BaseRequest(t) : t \in TaskIds}

InitFallback ==
    /\ InitStore
    /\ settings \in {st \in SettingsSpace : ~st.cache_enabled}
    /\ flagCache = NoneVal
    /\ flagDoc \in {"missing", "enabled", "disabled"}
    /\ req = [w \in Workers |-> IdleRequest]
    /\ InitBreakerIdle /\ InitRateIdle
    /\ InitWorkerIdle /\ InitShutdownIdle /\ InitTemplatesIdle
    /\ InitFlagsIdle /\ InitGptIdle /\ InitWindowIdle /\ InitBridgeIdle /\ InitStackIdle /\ InitStaleIdle

NextFallback ==
    \/ \E w \in OrchWorkers, payload \in FallbackRequests : Start(w, payload)
    \/ \E w \in OrchWorkers : BuildPrompt(w)
    \/ \E w \in OrchWorkers : PromptFailureFallback(w)
    \/ \E w \in OrchWorkers : ResolveFlag(w)
    \/ \E w \in OrchWorkers, outcome \in GenerateOutcomes : Generate(w, outcome)
    \/ \E w \in OrchWorkers : Fallback(w)
    \/ \E w \in OrchWorkers : Return(w)
    \/ \E v \in {"missing", "enabled", "disabled"} : FlagDocChange(v)
    \/ FlagCacheExpires

SpecFallback == InitFallback /\ [][NextFallback]_vars

(***************************************************************************)
(* CircuitBreakerMiddleware.dispatch: one action up to "await call_next",  *)
(* one for what follows it.                                                *)
(***************************************************************************)
InitBreaker ==
    /\ InitStore /\ InitOrchIdle /\ InitBreakerIdle /\ InitRateIdle
    /\ InitWorkerIdle /\ InitShutdownIdle /\ InitTemplatesIdle
    /\ InitFlagsIdle /\ InitGptIdle /\ InitWindowIdle /\ InitBridgeIdle /\ InitStackIdle /\ InitStaleIdle

\* key = request.url.path; state = setdefault(...); now = time.time();
\* if state["open_until"] > now: return 503; else: await call_next(request)
Arrive(c, r) ==
    /\ cbReq[c].pc = "idle"
    /\ IF IsOpen(cb[r], now)
       THEN /\ cbReq' = [cbReq EXCEPT ![c] =
                           [pc |-> "responded", route |-> r, status |-> 503,
                            downstream |-> FALSE]]
            /\ cbEvent' = [kind |-> "rejected", route |-> r, at |-> now,
                           before |-> cb[r], after |-> cb[r], streak |-> streak[r]]
       ELSE /\ cbReq' = [cbReq EXCEPT ![c] =
                           [pc |-> "downstream", route |-> r, status |-> 0,
                            downstream |-> TRUE]]
            /\ cbEvent' = [kind |-> "admitted", route |-> r, at |-> now,
                           before |-> cb[r], after |-> cb[r], streak |-> streak[r]]
    /\ UNCHANGED <<cb, now, streak>>
    /\ UNCHANGED outsideBreaker

\* call_next returned or raised: _record_failure(state), or failures = 0
Complete(c, outcome) ==
    /\ cbReq[c].pc = "downstream"
    /\ LET r == cbReq[c].route
           after == IF IsServerError(outcome) THEN RecordFailure(cb[r], now)
                    ELSE RecordSuccess(cb[r])
           run == IF ~IsServerError(outcome) THEN 0
                  ELSE IF streak[r] = failure_threshold THEN 1
                  ELSE streak[r] + 1 IN
       /\ cb' = [cb EXCEPT ![r] = after]
       /\ streak' = [streak EXCEPT ![r] = run]
       /\ cbReq' = [cbReq EXCEPT ![c] =
                      [@ EXCEPT !.pc = "responded",
                                !.status = outcome.status]]
       /\ cbEvent' = [kind |-> IF IsServerError(outcome) THEN "failure" ELSE "success",
                      route |-> r, at |-> now, before |-> cb[r],
                      after |-> after, streak |-> run]
    /\ UNCHANGED now
    /\ UNCHANGED outsideBreaker

\* The response (or the exception) has left the middleware.
Leave(c) ==
    /\ cbReq[c].pc = "responded"
    /\ cbReq' = [cbReq EXCEPT ![c] = IdleClient]
    /\ UNCHANGED <<cb, now, cbEvent, streak>>
    /\ UNCHANGED outsideBreaker

\* Time passes.
Tick ==
    /\ now + TickStep <= MaxTime
    /\ now' = now + TickStep
    /\ UNCHANGED <<cb, cbReq, cbEvent, streak>>
    /\ UNCHANGED outsideBreaker

NextBreaker ==
    \/ \E c \in Clients, r \in Routes : Arrive(c, r)
    \/ \E c \in Clients, outcome \in DownstreamOutcomes : Complete(c, outcome)
    \/ \E c \in Clients : Leave(c)
    \/ Tick

SpecBreaker == InitBreaker /\ [][NextBreaker]_vars

(***************************************************************************)
(* RateLimitMiddleware.dispatch: one action per await.  What follows an    *)
(* await up to the next one (or up to the return) runs without             *)
(* interleaving.                                                           *)
(***************************************************************************)
InitRate ==
    /\ InitStore /\ InitOrchIdle /\ InitBreakerIdle /\ InitRateIdle
    /\ InitWorkerIdle /\ InitShutdownIdle /\ InitTemplatesIdle
    /\ InitFlagsIdle /\ InitGptIdle /\ InitWindowIdle /\ InitBridgeIdle /\ InitStackIdle /\ InitStaleIdle

\* if count > self._limit: return 429, else: await call_next(request)
Decide(c, k, count) ==
    IF Exceeds(count)
    THEN /\ rlReq' = [rlReq EXCEPT ![c] = IdleDispatch]
         /\ rlEvent' = [kind |-> "rejected", key |-> k, count |-> count,
                        response |-> <<TooManyRequests>>, called |-> FALSE]
         /\ refused' = [refused EXCEPT ![k] = "now"]
         /\ UNCHANGED passed
    ELSE /\ rlReq' = [rlReq EXCEPT ![c] =
                        [pc |-> "downstream", key |-> k, count |-> count]]
         /\ rlEvent' = [kind |-> "passed", key |-> k, count |-> count,
                        response |-> <<>>, called |-> TRUE]
         /\ passed' = [passed EXCEPT ![k] = @ + 1]
         /\ UNCHANGED refused

\* count = await redis.incr(key); when count is not 1 the check of the
\* limit follows at once
RlIncr(c, a) ==
    LET k == RateKey(a)
        after == Incr(rl[k]) IN
    /\ rlReq[c].pc = "idle"
    /\ rl[k].count < limit + MaxExtra
    /\ rl' = [rl EXCEPT ![k] = after]
    /\ IF after.count = 1
       THEN /\ rlReq' = [rlReq EXCEPT ![c] =
                           [pc |-> "expire", key |-> k, count |-> after.count]]
            /\ rlEvent' = [kind |-> "first", key |-> k, count |-> after.count,
                           response |-> <<>>, called |-> FALSE]
            /\ UNCHANGED <<passed, refused>>
       ELSE Decide(c, k, after.count)
    /\ UNCHANGED outsideRate

\* if count == 1: await redis.expire(key, self._window); then the check
RlExpire(c) ==
    LET k == rlReq[c].key
        after == Expire(rl[k], window_seconds) IN
    /\ rlReq[c].pc = "expire"
    /\ rl' = [rl EXCEPT ![k] = after]
    /\ Decide(c, k, rlReq[c].count)
    /\ UNCHANGED outsideRate

\* return await call_next(request)
RlReturn(c, outcome) ==
    /\ rlReq[c].pc = "downstream"
    /\ rlReq' = [rlReq EXCEPT ![c] = IdleDispatch]
    /\ rlEvent' = [kind |-> IF outcome.raised THEN "raised" ELSE "returned",
                   key |-> rlReq[c].key, count |-> 0,
                   response |-> outcome.response, called |-> TRUE]
    /\ UNCHANGED <<rl, passed, refused>>
    /\ UNCHANGED outsideRate

\* RateStep seconds pass; Redis deletes the keys whose time has run out.
RlTick ==
    /\ \E k \in RateKeys : rl[k].ttl # NoExpiry
    /\ rl' = [k \in RateKeys |-> Elapse(rl[k], RateStep)]
    /\ refused' = [k \in RateKeys |->
                     IF Elapse(rl[k], RateStep).count = 0 /\ refused[k] = "now"
                     THEN "before" ELSE refused[k]]
    /\ passed' = [k \in RateKeys |->
                    IF Elapse(rl[k], RateStep).count = 0 THEN 0 ELSE passed[k]]
    /\ rlEvent' = [NoRateEvent EXCEPT !.kind = "tick"]
    /\ UNCHANGED rlReq
    /\ UNCHANGED outsideRate

NextRate ==
    \/ \E c \in RateCallers, a \in Addresses : RlIncr(c, a)
    \/ \E c \in RateCallers : RlExpire(c)
    \/ \E c \in RateCallers, outcome \in RouteOutcomes : RlReturn(c, outcome)
    \/ RlTick

SpecRate == InitRate /\ [][NextRate]_vars

\* The event loop resumes every coroutine whose await has completed, and
\* time passes.
FairRate ==
    /\ \A c \in RateCallers : WF_vars(RlExpire(c))
    /\ WF_vars(RlTick)

SpecRateFair == SpecRate /\ FairRate

(***************************************************************************)
(* RateLimitMiddleware.dispatch, one request after the other: the requests *)
(* a client sends in sequence, each answered before the next arrives.      *)
(* win records, per key, how many seconds ago each request still within    *)
(* the last window_seconds was passed downstream.                          *)
(***************************************************************************)
InitWindow ==
    /\ InitStore /\ InitOrchIdle /\ InitBreakerIdle /\ InitRateIdle
    /\ InitWorkerIdle /\ InitShutdownIdle /\ InitTemplatesIdle
    /\ InitFlagsIdle /\ InitGptIdle /\ InitWindowIdle /\ InitBridgeIdle /\ InitStackIdle /\ InitStaleIdle

\* count = await redis.incr(key); if count == 1: await redis.expire(key,
\* self._window)
CountRequest(entry) ==
    IF Incr(entry).count = 1 THEN Expire(Incr(entry), window_seconds)
    ELSE Incr(entry)

\* The passes of the last window_seconds, dt seconds later.
Age(passes, dt) ==
    LET older == [i \in 1..Len(passes) |-> passes[i] + dt] IN
    SelectSeq(older, LAMBDA age : age < window_seconds)

\* dispatch(request, call_next) from the incr to the 429 or to call_next
WinDispatch(a) ==
    LET k == RateKey(a)
        after == CountRequest(rl[k]) IN
    /\ rl[k].count < limit + MaxExtra
    /\ rl' = [rl EXCEPT ![k] = after]
    /\ win' = IF Exceeds(after.count) THEN win
              ELSE [win EXCEPT ![k] = Append(@, 0)]
    /\ UNCHANGED <<rlReq, rlEvent, passed, refused>>
    /\ UNCHANGED outsideWindow

\* RateStep seconds pass; Redis deletes the keys whose time has run out.
WinTick ==
    /\ \E k \in RateKeys : rl[k].ttl # NoExpiry \/ win[k] # <<>>
    /\ rl' = [k \in RateKeys |-> Elapse(rl[k], RateStep)]
    /\ win' = [k \in RateKeys |-> Age(win[k], RateStep)]
    /\ UNCHANGED <<rlReq, rlEvent, passed, refused>>
    /\ UNCHANGED outsideWindow

NextWindow ==
    \/ \E a \in Addresses : WinDispatch(a)
    \/ WinTick

SpecWindow == InitWindow /\ [][NextWindow]_vars

(***************************************************************************)
(* changestream_bridge.py: main() and the watcher it runs, one action per  *)
(* blocking call; the collections change meanwhile.                        *)
(***************************************************************************)
InitBridge ==
    /\ InitStore /\ InitOrchIdle /\ InitBreakerIdle /\ InitRateIdle
    /\ InitWorkerIdle /\ InitShutdownIdle /\ InitTemplatesIdle
    /\ InitFlagsIdle /\ InitGptIdle /\ InitWindowIdle /\ InitBridgeIdle /\ InitStackIdle /\ InitStaleIdle

\* Mongo records a change of a collection.
Record(change) ==
    /\ Len(oplog) < MaxChanges
    /\ oplog' = Append(oplog, change)
    /\ UNCHANGED <<stream, group, index, wk, wkEvent, wkHist, br>>
    /\ UNCHANGED outsideBridge

\* db.rules.insert_one
RulesInsert(id, doc) ==
    /\ corpus[id] = <<>>
    /\ corpus' = [corpus EXCEPT ![id] = <<doc>>]
    /\ UNCHANGED tplIds
    /\ Record(Change("rules", id, "insert"))

\* db.rules.update_one, db.rules.replace_one
RulesWrite(id, doc, operation) ==
    /\ corpus[id] # <<>>
    /\ corpus[id] # <<doc>>
    /\ corpus' = [corpus EXCEPT ![id] = <<doc>>]
    /\ UNCHANGED tplIds
    /\ Record(Change("rules", id, operation))

\* db.rules.delete_one
RulesDelete(id) ==
    /\ corpus[id] # <<>>
    /\ corpus' = [corpus EXCEPT ![id] = <<>>]
    /\ UNCHANGED tplIds
    /\ Record(Change("rules", id, "delete"))

\* db.templates changes: insert or delete of a template, update or replace
\* of one that exists
TemplatesChange(id, operation) ==
    /\ IF operation = "insert" THEN id \notin tplIds ELSE id \in tplIds
    /\ tplIds' = IF operation = "insert" THEN tplIds \union {id}
                 ELSE IF operation = "delete" THEN tplIds \ {id}
                 ELSE tplIds
    /\ UNCHANGED corpus
    /\ Record(Change("templates", id, operation))

\* db, redis_client = connect_services(): sys.exit(1) when a connection
\* fails; in main() the replica set check follows, in the error handler the
\* loop goes on.
BrConnect(ok) ==
    /\ br.pc \in {"main", "reconnect"}
    /\ br' = [br EXCEPT !.pc = IF ~ok THEN "exit"
                               ELSE IF br.pc = "main" THEN "check"
                               ELSE "loop"]
    /\ UNCHANGED <<oplog, tplIds>>
    /\ UNCHANGED workerVars
    /\ UNCHANGED outsideBridge

\* db.client.admin.command('replSetGetStatus'); except PyMongoError:
\* sys.exit(1)
BrCheck(ok) ==
    /\ br.pc = "check"
    /\ br' = [br EXCEPT !.pc = IF ok THEN "loop" ELSE "exit"]
    /\ UNCHANGED <<oplog, tplIds>>
    /\ UNCHANGED workerVars
    /\ UNCHANGED outsideBridge

\* while True: watch_templates(db, redis_client): collection.watch(...)
\* opens a change stream that reports the changes from now on.
BrWatch ==
    /\ br.pc = "loop"
    /\ br' = [br EXCEPT !.pc = "watching", !.cursor = Len(oplog)]
    /\ UNCHANGED <<oplog, tplIds>>
    /\ UNCHANGED workerVars
    /\ UNCHANGED outsideBridge

\* for change in stream: publish_change_event(...).  The change stream
\* reports the changes of the watched collection only; xadd appends the
\* event, and a RedisError is printed and the event dropped.
BrChange(xadd_ok) ==
    LET change == oplog[br.cursor + 1] IN
    /\ br.pc = "watching"
    /\ br.cursor < Len(oplog)
    /\ br' = [br EXCEPT !.cursor = @ + 1]
    /\ stream' = IF change.collection \in WatchedByMain /\ xadd_ok
                 THEN Append(stream, EventOf(change))
                 ELSE stream
    /\ UNCHANGED <<oplog, tplIds>>
    /\ UNCHANGED <<corpus, group, index, wk, wkEvent, wkHist>>
    /\ UNCHANGED outsideBridge

\* The watcher raises: except PyMongoError: sleep, connect_services();
\* except KeyboardInterrupt: break; except Exception: sleep.
BrRaise(error) ==
    /\ br.pc = "watching"
    /\ br' = [br EXCEPT !.pc = IF error = "PyMongoError" THEN "reconnect"
                               ELSE IF error = "KeyboardInterrupt" THEN "exit"
                               ELSE "loop"]
    /\ UNCHANGED <<oplog, tplIds>>
    /\ UNCHANGED workerVars
    /\ UNCHANGED outsideBridge

BridgeErrors == {"PyMongoError", "KeyboardInterrupt", "Exception"}

\* The bridge goes on when nothing fails.
BridgeStep ==
    \/ BrConnect(TRUE)
    \/ BrCheck(TRUE)
    \/ BrWatch
    \/ BrChange(TRUE)

NextBridge ==
    \/ \E id \in RuleIds, doc \in RuleDocs : RulesInsert(id, doc)
    \/ \E id \in RuleIds, doc \in RuleDocs, operation \in {"update", "replace"} :
          RulesWrite(id, doc, operation)
    \/ \E id \in RuleIds : RulesDelete(id)
    \/ \E id \in TemplateIds, operation \in Operations : TemplatesChange(id, operation)
    \/ \E ok \in BOOLEAN : BrConnect(ok)
    \/ \E ok \in BOOLEAN : BrCheck(ok)
    \/ BrWatch
    \/ \E xadd_ok \in BOOLEAN : BrChange(xadd_ok)
    \/ \E error \in BridgeErrors : BrRaise(error)

SpecBridge == InitBridge /\ [][NextBridge]_vars

\* The bridge is a process of its own: it runs whenever it can.
SpecBridgeFair == SpecBridge /\ WF_vars(BridgeStep)

(***************************************************************************)
(* Two handle_request calls at once, on an empty cache, with caching and   *)
(* the LLM path enabled: requests for one task, with the same fingerprint  *)
(* or with different ones.                                                 *)
(***************************************************************************)
PairRequests ==
    {BaseRequest("t1"), [BaseRequest("t1") EXCEPT !.user_errors = <<"e1">>]}

\* What generate may do for each of the two calls.
PairOutcomes == {"text", "other_text", "ReadTimeout"}

InitPair ==
    /\ InitStore /\ InitOrchIdle /\ InitBreakerIdle /\ InitRateIdle
    /\ InitWorkerIdle /\ InitShutdownIdle /\ InitTemplatesIdle
    /\ InitFlagsIdle /\ InitGptIdle /\ InitWindowIdle /\ InitBridgeIdle /\ InitStackIdle /\ InitStaleIdle

NextPair ==
    \/ \E w \in Workers, payload \in PairRequests : Start(w, payload)
    \/ \E w \in Workers : DoCacheGet(w)
    \/ \E w \in Workers : BuildPrompt(w)
    \/ \E w \in Workers : ResolveFlag(w)
    \/ \E w \in Workers, outcome \in PairOutcomes : Generate(w, outcome)
    \/ \E w \in Workers : Fallback(w)
    \/ \E w \in Workers : DoCacheSet(w)

SpecPair == InitPair /\ [][NextPair]_vars

(***************************************************************************)
(* RateLimitMiddleware.dispatch when the expire call does not complete:    *)
(* redis.expire raises (connection lost, timeout), or the request task is  *)
(* cancelled while it awaits the call (the client went away).              *)
(***************************************************************************)
\* await redis.expire(key, self._window) raises or is cancelled: dispatch
\* has no try around it, the exception leaves the middleware and the key
\* stays as INCR created it.
RlInterrupt(c) ==
    /\ rlReq[c].pc = "expire"
    /\ rlReq' = [rlReq EXCEPT ![c] = IdleDispatch]
    /\ rlEvent' = [kind |-> "interrupted", key |-> rlReq[c].key,
                   count |-> rlReq[c].count, response |-> <<>>, called |-> FALSE]
    /\ UNCHANGED <<rl, passed, refused>>
    /\ UNCHANGED outsideRate

NextRateFaults ==
    \/ \E c \in RateCallers, a \in Addresses : RlIncr(c, a)
    \/ \E c \in RateCallers : RlExpire(c)
    \/ \E c \in RateCallers : RlInterrupt(c)
    \/ \E c \in RateCallers, outcome \in RouteOutcomes : RlReturn(c, outcome)
    \/ RlTick

SpecRateFaults == InitRate /\ [][NextRateFaults]_vars

(***************************************************************************)
(* Claims about the cache                                                  *)
(***************************************************************************)
GetOfLastSet ==
    /\ cacheOp.op = "get"
    /\ cacheOp.before.by = "set"

\* C1: after set(R, resp), with no other write to R's key and before the
\* TTL runs out, get(R) returns a response equal to resp in every field.
C1_RoundTrip ==
    (GetOfLastSet /\ cacheOp.before.payload = cacheOp.payload)
        => cacheOp.result = GetResponse(cacheOp.before.response[1])

C1_Witness ==
    /\ GetOfLastSet
    /\ cacheOp.before.payload = cacheOp.payload
    /\ cacheOp.result.kind = "response"
    /\ cacheOp.result.response[1].source = "yandexgpt"
    /\ cacheOp.payload[1].user_errors = <<"e1", "e2">>

FingerprintedFieldsDiffer(r1, r2) ==
    \/ r1.topic_id # r2.topic_id
    \/ r1.task_type # r2.task_type
    \/ r1.user_errors # r2.user_errors
    \/ r1.language_level # r2.language_level
    \/ r1.language # r2.language

\* C2: after set(R1, resp), get(R2) for a request R2 with the same task_id
\* that differs from R1 in a fingerprinted field returns None and does not
\* raise.
C2_FingerprintSensitivity ==
    (/\ GetOfLastSet
     /\ cacheOp.before.payload[1].task_id = cacheOp.payload[1].task_id
     /\ FingerprintedFieldsDiffer(cacheOp.before.payload[1], cacheOp.payload[1]))
        => cacheOp.result = GetNone

C2_Witness ==
    /\ GetOfLastSet
    /\ cacheOp.before.payload[1].task_id = cacheOp.payload[1].task_id
    /\ cacheOp.before.payload[1].user_errors = <<"e1", "e2">>
    /\ cacheOp.payload[1].user_errors = <<"e2", "e1">>
    /\ cacheOp.result = GetNone

RawMatches(raw, payload) ==
    /\ raw.kind = "json_object"
    /\ raw.fingerprint = <<Fingerprint(payload)>>
    /\ raw.response # <<>>

\* C3: get(R) returns a response only if the stored value is a
\* {fingerprint, response} document whose fingerprint is R's; every other
\* stored value is treated as absent: get returns None and does not raise.
C3_OnlyMatchingDocumentServed ==
    (cacheOp.op = "get" /\ ~RawMatches(cacheOp.raw, cacheOp.payload[1]))
        => cacheOp.result = GetNone


(***************************************************************************)
(* Claims about the orchestrator                                           *)
(***************************************************************************)
Finished(w) == req[w].pc \in {"done", "raised"}

LookedUp(w) == req[w].pc \notin {"idle", "cache_get"}

\* C4: with caching enabled the lookup is made, and when the entry found has
\* the request's fingerprint handle_request returns the stored response
\* unchanged, calling nothing but cache.get (and the hit counter).
C4_CacheHitShortCircuits ==
    \A w \in Workers :
        /\ (settings.cache_enabled /\ LookedUp(w)) => "cache.get" \in req[w].calls
        /\ ("cache.get" \in req[w].calls /\ RawMatches(req[w].seen, Payload(w)))
             => /\ req[w].pc = "done"
                /\ req[w].path = "hit"
                /\ req[w].response = <<ResponseFromJson(req[w].seen.response[1])>>
                /\ req[w].calls = {"cache.get", "CACHE_HITS.inc"}

C4_Witness ==
    \E w \in Workers :
        /\ req[w].pc = "done"
        /\ req[w].path = "hit"
        /\ written[Key(Payload(w).task_id)].by = "set"
        /\ RawMatches(req[w].seen, Payload(w))
        /\ req[w].response[1].source = "yandexgpt"
        /\ req[w].calls = {"cache.get", "CACHE_HITS.inc"}

LlmOff(w) == ~settings.yandex \/ req[w].flagFalse

\* C5 as stated: whenever the generation client is None or the flag resolves
\* false, handle_request does not call generate and returns a response with
\* source 'fallback'.
C5_Original ==
    \A w \in Workers :
        (req[w].pc = "done" /\ LlmOff(w))
            => /\ "yandex.generate" \notin req[w].calls
               /\ req[w].response[1].source = "fallback"

\* C5 amended: whenever the generation client is None or the flag resolves
\* false, handle_request does not call generate, and every response it
\* computes (cache miss, or caching disabled) has source 'fallback'; a cache
\* hit returns the stored response with the source stored with it.  generate
\* is called only if the flag resolved true and the client exists.
C5_FallbackTotality ==
    \A w \in Workers :
        /\ LlmOff(w) => "yandex.generate" \notin req[w].calls
        /\ (req[w].pc = "done" /\ LlmOff(w) /\ req[w].path # "hit")
              => req[w].response[1].source = "fallback"
        /\ (req[w].pc = "done" /\ req[w].path = "hit")
              => req[w].response = <<ResponseFromJson(req[w].seen.response[1])>>
        /\ "yandex.generate" \in req[w].calls
              => (req[w].use_llm /\ settings.yandex)

C5_Witness ==
    \E w \in Workers :
        /\ req[w].pc = "done"
        /\ settings.yandex
        /\ req[w].flagFalse
        /\ req[w].path = "llm_disabled"
        /\ "feature_flags.is_enabled" \in req[w].calls
        /\ req[w].response[1].source = "fallback"

\* C6: every failure of the generation call is caught inside handle_request,
\* counted by reason, and answered by a response with source 'fallback'.
C6_GenerationFailureAbsorbed ==
    \A w \in Workers :
        req[w].generated \in GenerateExceptions
            => /\ req[w].pc # "raised"
               /\ req[w].counted = req[w].generated
               /\ req[w].pc = "done" => req[w].response[1].source = "fallback"

ComputedAfterPrompt(w) ==
    req[w].path \in {"generated", "llm_failed", "llm_empty", "llm_disabled"}

\* C7 as stated: with caching enabled every response produced after a cache
\* miss, the fallback after a prompt-building failure included, is written
\* with cache.set before it is returned.
C7_Original ==
    \A w \in Workers :
        (req[w].pc = "done" /\ settings.cache_enabled /\ req[w].path # "hit")
            => "cache.set" \in req[w].calls

\* C7 amended: with caching enabled every response produced after a cache
\* miss once the prompt was built (generated, fallback after an LLM failure
\* or an empty text, fallback with the LLM disabled) is written with
\* cache.set under the request's key with the request's fingerprint before
\* it is returned, so that a get of the same request on that document is a
\* hit; the fallback after a prompt-building failure is returned without
\* being cached.
C7_CacheWrite ==
    \A w \in Workers :
        /\ (req[w].pc = "done" /\ settings.cache_enabled /\ ComputedAfterPrompt(w))
              => /\ "cache.set" \in req[w].calls
                 /\ req[w].wrote =
                       <<JsonObjectRaw(<<Fingerprint(Payload(w))>>,
                                       <<ResponseToJson(req[w].response[1])>>)>>
                 /\ CacheGet(req[w].wrote[1], Payload(w))
                       = GetResponse(req[w].response[1])
        /\ (req[w].pc = "done" /\ req[w].path = "prompt_failure")
              => ("cache.set" \notin req[w].calls /\ req[w].wrote = <<>>)

C7_Witness ==
    \E w \in Workers :
        /\ req[w].pc = "done"
        /\ settings.cache_enabled
        /\ req[w].path = "llm_failed"
        /\ req[w].response[1].source = "fallback"
        /\ "cache.set" \in req[w].calls
        /\ store[Key(Payload(w).task_id)] = req[w].wrote[1]

CacheCalls == {"cache.get", "cache.set", "CACHE_HITS.inc", "CACHE_MISSES.inc"}

\* C8: with cache_enabled = false handle_request calls neither cache.get nor
\* cache.set on any path, and no request changes an explanation entry of
\* the store (an entry is what it was at start, or gone by its TTL).
C8_CacheBypass ==
    ~settings.cache_enabled
        => /\ \A w \in Workers : req[w].calls \cap CacheCalls = {}
           /\ \A w \in Workers : req[w].wrote = <<>> /\ req[w].path # "hit"
           /\ \A k \in TaskIds :
                 /\ written[k].by \in {"none", "expired"}
                 /\ store[k] \in {AbsentRaw, EarlierEntry}

C8_Witness ==
    /\ ~settings.cache_enabled
    /\ store["t1"] = EarlierEntry
    /\ \E w \in Workers :
          /\ req[w].pc = "done"
          /\ Payload(w) = BaseRequest("t1")
          /\ req[w].path = "generated"


(***************************************************************************)
(* Claims about the circuit breaker                                        *)
(***************************************************************************)
Arrival == cbEvent.kind \in {"rejected", "admitted"}

\* C9: failure_threshold server errors (5xx or exception) in a row on one
\* route open that route's circuit with open_until = now + recovery_time
\* (and the counter back at 0); every request that arrives on the route
\* while open_until > now is answered 503 and does not reach downstream.
C9_CircuitOpens ==
    /\ (cbEvent.kind = "failure" /\ cbEvent.streak = failure_threshold)
          => /\ cbEvent.after.open_until = cbEvent.at + recovery_time
             /\ cbEvent.after.failures = 0
             /\ IsOpen(cb[cbEvent.route], now) \/ now >= cbEvent.at + recovery_time
    /\ (Arrival /\ cbEvent.before.open_until > cbEvent.at)
          => cbEvent.kind = "rejected"
    /\ \A c \in Clients :
          (cbReq[c].pc # "idle" /\ ~cbReq[c].downstream)
             => (cbReq[c].pc = "responded" /\ cbReq[c].status = 503)

C9_Witness ==
    /\ cbEvent.kind = "rejected"
    /\ cbEvent.before.open_until > cbEvent.at
    /\ cb[cbEvent.route].failures = 0
    /\ streak[cbEvent.route] = failure_threshold
    /\ \E c \in Clients :
          /\ cbReq[c].pc = "responded"
          /\ cbReq[c].status = 503
          /\ ~cbReq[c].downstream

\* C10: once now >= open_until a request is passed downstream again; a
\* call that ends without a server error leaves the circuit closed with the
\* failure counter at 0; and the circuit is opened only by a server error
\* that completes failure_threshold server errors in a row counted from the
\* last success or the last opening.
C10_CircuitRecovers ==
    /\ (Arrival /\ cbEvent.before.open_until <= cbEvent.at)
          => cbEvent.kind = "admitted"
    /\ cbEvent.kind = "success"
          => /\ cbEvent.after.failures = 0
             /\ cbEvent.after.open_until = cbEvent.before.open_until
             /\ cbEvent.before.open_until <= cbEvent.at
                   => ~IsOpen(cbEvent.after, cbEvent.at)
             /\ streak[cbEvent.route] = 0
    /\ (cbEvent.kind \in {"failure", "success"}
          /\ cbEvent.after.open_until # cbEvent.before.open_until)
          => (cbEvent.kind = "failure" /\ cbEvent.streak = failure_threshold)
    /\ \A r \in Routes : cb[r].failures = streak[r] % failure_threshold

C10_Witness ==
    /\ cbEvent.kind = "success"
    /\ cbEvent.before.open_until > 0
    /\ cbEvent.before.open_until <= cbEvent.at
    /\ cbEvent.before.failures = failure_threshold - 1
    /\ cbEvent.after.failures = 0
    /\ ~IsOpen(cb[cbEvent.route], now)

(***************************************************************************)
(* The rules collection changes; the change-stream bridge appends the      *)
(* change event to the stream (changestream_bridge.py, watch_rules and     *)
(* publish_change_event).                                                  *)
(***************************************************************************)
InitWorker ==
    /\ InitStore /\ InitOrchIdle /\ InitBreakerIdle /\ InitRateIdle
    /\ InitWorkerIdle /\ InitShutdownIdle /\ InitTemplatesIdle
    /\ InitFlagsIdle /\ InitGptIdle /\ InitWindowIdle /\ InitBridgeIdle /\ InitStackIdle /\ InitStaleIdle

\* The status an entry may carry: the bridge sends none; the ChangeEvent of
\* other producers has an optional status.
EventStatuses(status) ==
    IF status = "deprecated" THEN {NoneVal, "deprecated"} ELSE {NoneVal}

\* history: the rules changed, possibly while an entry is being processed
RulesChanged ==
    [wkHist EXCEPT !.last = NoProcessing,
                   !.dirty = wk.pc \in {"process", "apply"}]

Publish(event) ==
    /\ Len(stream) < MaxEvents
    /\ stream' = Append(stream, event)
    /\ UNCHANGED <<group, index, wk, wkEvent>>
    /\ UNCHANGED outsideWorker

InsertRule(id, doc, status) ==
    /\ corpus[id] = <<>>
    /\ corpus' = [corpus EXCEPT ![id] = <<doc>>]
    /\ wkHist' = RulesChanged
    /\ Publish(ChangeEvent("rules", id, "created", status))

UpdateRule(id, doc, status) ==
    /\ corpus[id] # <<>>
    /\ corpus[id] # <<doc>>
    /\ corpus' = [corpus EXCEPT ![id] = <<doc>>]
    /\ wkHist' = RulesChanged
    /\ Publish(ChangeEvent("rules", id, "updated", status))

DeleteRule(id) ==
    /\ corpus[id] # <<>>
    /\ corpus' = [corpus EXCEPT ![id] = <<>>]
    /\ wkHist' = RulesChanged
    /\ Publish(ChangeEvent("rules", id, "deleted", NoneVal))

\* An entry that is no rule change reaches the stream.
ForeignChange(event) ==
    /\ UNCHANGED <<corpus, wkHist>>
    /\ Publish(event)

(***************************************************************************)
(* EmbeddingWorker.run_forever and _process: one action per await          *)
(***************************************************************************)
Entry(p) == stream[p]

CanFail == wkHist.failures < MaxFailures

\* The loop goes on to the next entry of the batch, or to the next poll.
NextEntry(w) ==
    IF Len(w.batch) > 1
    THEN [IdleWorker EXCEPT !.pc = "process", !.batch = Tail(w.batch),
                            !.again = w.again]
    ELSE IdleWorker

\* _process raised: except Exception: LOGGER.exception(...)
Failed ==
    /\ CanFail
    /\ wk' = IF AfterProcess(FALSE) = "ack"
             THEN [wk EXCEPT !.pc = "ack", !.todo = "none", !.rule = <<>>]
             ELSE NextEntry(wk)
    /\ wkEvent' = [NoWorkerEvent EXCEPT !.kind = "failed", !.entry = wk.batch[1],
                                        !.again = wk.again, !.logged = TRUE,
                                        !.rest = Tail(wk.batch)]
    /\ wkHist' = [wkHist EXCEPT !.failures = @ + 1, !.dirty = FALSE]
    /\ UNCHANGED <<corpus, stream, group, index>>

\* _process returned: the worker goes on to xack
Processed(idx) ==
    LET p == wk.batch[1] IN
    /\ index' = idx
    /\ wk' = [wk EXCEPT !.pc = AfterProcess(TRUE), !.todo = "none",
                        !.rule = <<>>, !.returned = TRUE]
    /\ wkEvent' = [NoWorkerEvent EXCEPT
                     !.kind = "processed", !.entry = p, !.again = wk.again,
                     !.same = (wkHist.last.payload = <<Entry(p)>>),
                     !.unchanged = (idx = wkHist.last.index)]
    /\ wkHist' = [wkHist EXCEPT
                    !.last = IF wkHist.dirty THEN NoProcessing
                             ELSE [payload |-> <<Entry(p)>>, index |-> idx],
                    !.dirty = FALSE]
    /\ UNCHANGED <<corpus, stream, group>>

\* messages = await xreadgroup(streams={name: ">"}, count=10, block=2000):
\* the entries never delivered to a consumer of the group, in order
WkPoll ==
    LET fresh == [i \in 1..Min(BatchSize, Len(stream) - group.delivered) |->
                    group.delivered + i] IN
    /\ wk.pc = "poll"
    /\ IF fresh = <<>>
       THEN /\ wkEvent.kind # "empty"
            /\ wkEvent' = [NoWorkerEvent EXCEPT !.kind = "empty"]
            /\ UNCHANGED <<group, wk>>
       ELSE /\ group' = [delivered |-> group.delivered + Len(fresh),
                         pending |-> group.pending \cup
                                       {fresh[i] : i \in 1..Len(fresh)}]
            /\ wk' = [IdleWorker EXCEPT !.pc = "process", !.batch = fresh]
            /\ wkEvent' = [NoWorkerEvent EXCEPT !.kind = "delivered",
                                                !.entry = fresh[1]]
    /\ UNCHANGED <<corpus, stream, index, wkHist>>
    /\ UNCHANGED outsideWorker

\* await self._process(payload), up to the return or to the await that
\* follows find_one
WkProcess(ok) ==
    LET payload == Entry(wk.batch[1])
        id == payload.document_id IN
    /\ wk.pc = "process"
    /\ IF FirstStep(payload) = "skip"
       THEN ok /\ Processed(index)
       ELSE IF ~ok THEN Failed
       ELSE IF FirstStep(payload) = "delete" THEN Processed(DeletePoint(index, id))
       ELSE /\ wk' = [wk EXCEPT !.pc = "apply", !.todo = AfterFind(corpus[id]),
                                !.rule = corpus[id]]
            /\ wkEvent' = [NoWorkerEvent EXCEPT !.kind = "found",
                                                !.entry = wk.batch[1],
                                                !.again = wk.again]
            /\ UNCHANGED <<corpus, stream, group, index, wkHist>>
    /\ UNCHANGED outsideWorker

\* the rest of _process: _delete_point, or embed and qdrant.upsert
WkApply(ok) ==
    LET id == Entry(wk.batch[1]).document_id IN
    /\ wk.pc = "apply"
    /\ IF ~ok THEN Failed
       ELSE IF wk.todo = "delete" THEN Processed(DeletePoint(index, id))
       ELSE Processed(Upsert(index, PointOf(id, wk.rule[1])))
    /\ UNCHANGED outsideWorker

\* await self._redis.xack(stream, group, message_id); when it raises, the
\* except clause logs and the entry stays pending
WkAck(ok) ==
    /\ wk.pc = "ack"
    /\ IF ~ok
       THEN /\ CanFail
            /\ wk' = NextEntry(wk)
            /\ wkEvent' = [NoWorkerEvent EXCEPT !.kind = "ack failed",
                              !.entry = wk.batch[1], !.again = wk.again,
                              !.returned = wk.returned, !.logged = TRUE,
                              !.rest = Tail(wk.batch)]
            /\ wkHist' = [wkHist EXCEPT !.failures = @ + 1]
            /\ UNCHANGED group
       ELSE /\ group' = [group EXCEPT !.pending = @ \ {wk.batch[1]}]
            /\ wk' = NextEntry(wk)
            /\ wkEvent' = [NoWorkerEvent EXCEPT !.kind = "acked",
                              !.entry = wk.batch[1], !.again = wk.again,
                              !.returned = wk.returned]
            /\ UNCHANGED wkHist
    /\ UNCHANGED <<corpus, stream, index>>
    /\ UNCHANGED outsideWorker

\* The service is restarted while a batch is in work: the task is cancelled
\* and on_startup creates a new one, which starts at the poll.
WkRestart ==
    /\ wk.pc # "poll"
    /\ wk' = IdleWorker
    /\ wkEvent' = [NoWorkerEvent EXCEPT !.kind = "restarted", !.entry = wk.batch[1]]
    /\ UNCHANGED <<corpus, stream, group, index, wkHist>>
    /\ UNCHANGED outsideWorker

WorkerStep ==
    \/ WkPoll
    \/ \E ok \in BOOLEAN : WkProcess(ok)
    \/ \E ok \in BOOLEAN : WkApply(ok)
    \/ \E ok \in BOOLEAN : WkAck(ok)

CorpusStep ==
    \/ \E id \in RuleIds, doc \in RuleDocs :
          \E status \in EventStatuses(doc.status) : InsertRule(id, doc, status)
    \/ \E id \in RuleIds, doc \in RuleDocs :
          \E status \in EventStatuses(doc.status) : UpdateRule(id, doc, status)
    \/ \E id \in RuleIds : DeleteRule(id)
    \/ \E event \in ForeignEvents : ForeignChange(event)

NextWorker ==
    \/ CorpusStep
    \/ WorkerStep
    \/ WkRestart

SpecWorker == InitWorker /\ [][NextWorker]_vars

\* The event loop resumes the worker whenever its await has completed.
SpecWorkerFair == SpecWorker /\ WF_vars(WorkerStep)

(***************************************************************************)
(* Delivery at least once: an entry that stayed pending is claimed from    *)
(* the pending list of the group and handed to _process again.             *)
(***************************************************************************)
Redeliver(p) ==
    /\ wk.pc = "poll"
    /\ p \in group.pending
    /\ wk' = [IdleWorker EXCEPT !.pc = "process", !.batch = <<p>>, !.again = TRUE]
    /\ wkEvent' = [NoWorkerEvent EXCEPT !.kind = "delivered", !.entry = p,
                                        !.again = TRUE]
    /\ UNCHANGED <<corpus, stream, group, index, wkHist>>
    /\ UNCHANGED outsideWorker

NextReplay ==
    \/ CorpusStep
    \/ WorkerStep
    \/ WkRestart
    \/ \E p \in 1..MaxEvents : Redeliver(p)

SpecReplay == InitWorker /\ [][NextReplay]_vars

(***************************************************************************)
(* create_app.on_shutdown: one action per await, with the embedding worker *)
(* running beside it until its task is cancelled.                          *)
(***************************************************************************)
InitShutdown ==
    /\ InitStore /\ InitOrchIdle /\ InitBreakerIdle /\ InitRateIdle
    /\ InitWorkerIdle /\ InitTemplatesIdle
    /\ InitFlagsIdle /\ InitGptIdle /\ InitWindowIdle /\ InitBridgeIdle /\ InitStackIdle /\ InitStaleIdle
    /\ \E llm \in BOOLEAN : sd = Serving(llm)

\* mongo_client.close(); await redis_client.close()
SdCloseStores ==
    /\ sd.pc = "serving"
    /\ sd' = [sd EXCEPT !.pc = "redis_closing", !.closed = @ \cup {"mongo"}]
    /\ UNCHANGED workerVars
    /\ UNCHANGED outsideShutdown

\* redis_client.close() returned; qdrant_client.close(); then
\* await yandex_client.close() when there is a client, else worker_task.cancel()
SdCloseIndex ==
    /\ sd.pc = "redis_closing"
    /\ sd' = IF sd.llm
             THEN [sd EXCEPT !.pc = "llm_closing", !.closed = @ \cup {"redis", "qdrant"}]
             ELSE [sd EXCEPT !.pc = "awaiting_worker",
                             !.closed = @ \cup {"redis", "qdrant"},
                             !.cancelRequested = TRUE]
    /\ UNCHANGED workerVars
    /\ UNCHANGED outsideShutdown

\* yandex_client.close() returned; worker_task.cancel(); await worker_task
SdCancelWorker ==
    /\ sd.pc = "llm_closing"
    /\ sd' = [sd EXCEPT !.pc = "awaiting_worker", !.closed = @ \cup {"llm"},
                        !.cancelRequested = TRUE]
    /\ UNCHANGED workerVars
    /\ UNCHANGED outsideShutdown

\* CancelledError is raised at the await the worker is suspended in; it is
\* no Exception, so it leaves run_forever and the task ends.
WkCancelled ==
    /\ sd.cancelRequested
    /\ WorkerRunning
    /\ wk' = [IdleWorker EXCEPT !.pc = "cancelled"]
    /\ wkEvent' = [NoWorkerEvent EXCEPT !.kind = "cancelled"]
    /\ UNCHANGED <<corpus, stream, group, index, wkHist, sd>>
    /\ UNCHANGED outsideShutdown

\* await worker_task returned; scheduler.shutdown()
SdStopScheduler ==
    /\ sd.pc = "awaiting_worker"
    /\ ~WorkerRunning
    /\ sd' = [sd EXCEPT !.pc = "stopped", !.scheduler = "stopped"]
    /\ UNCHANGED workerVars
    /\ UNCHANGED outsideShutdown

NextShutdown ==
    \/ CorpusStep
    \/ WorkerStep
    \/ SdCloseStores
    \/ SdCloseIndex
    \/ SdCancelWorker
    \/ WkCancelled
    \/ SdStopScheduler

SpecShutdown == InitShutdown /\ [][NextShutdown]_vars

(***************************************************************************)
(* EmbeddingWorker.run_forever when a Redis call of the loop head raises   *)
(***************************************************************************)
\* The awaits of the loop head, outside the try of the loop body.
LoopHeadCalls == {"xlen", "xreadgroup"}

\* await self._update_lag_metric() (xlen) or await self._redis.xreadgroup(...)
\* raises: no try encloses them, the exception leaves run_forever and the
\* task created by on_startup is done; nothing starts another.
WkPollRaises(call) ==
    /\ wk.pc = "poll"
    /\ wk' = [IdleWorker EXCEPT !.pc = "ended"]
    /\ wkEvent' = [NoWorkerEvent EXCEPT !.kind = call]
    /\ UNCHANGED <<corpus, stream, group, index, wkHist>>
    /\ UNCHANGED outsideWorker

NextLoop ==
    \/ CorpusStep
    \/ WorkerStep
    \/ \E call \in LoopHeadCalls : WkPollRaises(call)

SpecLoop == InitWorker /\ [][NextLoop]_vars

(***************************************************************************)
(* A request through the middleware stack of create_app.  Starlette runs   *)
(* the middleware added last first: CircuitBreakerMiddleware is outermost, *)
(* its call_next is RateLimitMiddleware.dispatch, whose call_next leads on *)
(* to the route.                                                           *)
(***************************************************************************)
InitStack ==
    /\ InitStore /\ InitOrchIdle /\ InitBreakerIdle /\ InitRateIdle
    /\ InitWorkerIdle /\ InitShutdownIdle /\ InitTemplatesIdle
    /\ InitFlagsIdle /\ InitGptIdle /\ InitWindowIdle /\ InitBridgeIdle
    /\ InitStackIdle /\ InitStaleIdle

\* A stack in which the limiter counts a request before the breaker sees it.
InnerReachedAlways(rejected) == TRUE

\* The breaker returns its 503 without call_next: the middleware inside it
\* is reached only by a request the breaker lets through.
InnerReached(rejected) == ~rejected

\* What reaches the breaker from inside: the limiter's 429, the route's
\* response, or an exception.
LimiterRejects == [raised |-> FALSE, status |-> 429]

StackOutcomes ==
    {[raised |-> FALSE, status |-> 200], [raised |-> FALSE, status |-> 500],
     [raised |-> TRUE, status |-> 500]}

\* CircuitBreakerMiddleware.dispatch up to call_next, for a request of the
\* client at address a
StArrive(c, r, a) ==
    /\ cbReq[c].pc = "idle"
    /\ IF IsOpen(cb[r], now)
       THEN /\ cbReq' = [cbReq EXCEPT ![c] =
                           [pc |-> "responded", route |-> r, status |-> 503,
                            downstream |-> FALSE]]
            /\ stk' = [stk EXCEPT ![c] = NotInStack]
       ELSE /\ cbReq' = [cbReq EXCEPT ![c] =
                           [pc |-> "downstream", route |-> r, status |-> 0,
                            downstream |-> TRUE]]
            /\ stk' = [stk EXCEPT ![c] =
                        [stage |-> "limiter", address |-> a, outcome |-> <<>>,
                         found |-> 0]]
    /\ rl' = IF IsOpen(cb[r], now) /\ InnerReached(TRUE)
             THEN [rl EXCEPT ![RateKey(a)] = CountRequest(@)]
             ELSE rl
    /\ UNCHANGED <<cb, now, cbEvent, streak>>
    /\ UNCHANGED <<rlReq, rlEvent, passed, refused>>
    /\ UNCHANGED outsideStack

\* RateLimitMiddleware.dispatch: incr, expire on the first count, and the
\* 429 or call_next
StLimit(c) ==
    LET k == RateKey(stk[c].address)
        after == CountRequest(rl[k]) IN
    /\ stk[c].stage = "limiter"
    /\ rl[k].count < limit + MaxExtra
    /\ rl' = [rl EXCEPT ![k] = after]
    /\ stk' = [stk EXCEPT ![c] =
                IF Exceeds(after.count)
                THEN [@ EXCEPT !.stage = "back", !.outcome = <<LimiterRejects>>]
                ELSE [@ EXCEPT !.stage = "route"]]
    /\ UNCHANGED <<rlReq, rlEvent, passed, refused>>
    /\ UNCHANGED breakerVars
    /\ UNCHANGED outsideStack

\* The route answers, or raises.
StRoute(c, outcome) ==
    /\ stk[c].stage = "route"
    /\ stk' = [stk EXCEPT ![c] = [@ EXCEPT !.stage = "back", !.outcome = <<outcome>>]]
    /\ UNCHANGED rateVars
    /\ UNCHANGED breakerVars
    /\ UNCHANGED outsideStack

\* call_next of the breaker returned or raised: _record_failure(state), or
\* failures = 0
StComplete(c) ==
    /\ stk[c].stage = "back"
    /\ cbReq[c].pc = "downstream"
    /\ LET r == cbReq[c].route
           outcome == stk[c].outcome[1]
           after == IF IsServerError(outcome) THEN RecordFailure(cb[r], now)
                    ELSE RecordSuccess(cb[r]) IN
       /\ cb' = [cb EXCEPT ![r] = after]
       /\ cbReq' = [cbReq EXCEPT ![c] =
                      [@ EXCEPT !.pc = "responded", !.status = outcome.status]]
    /\ stk' = [stk EXCEPT ![c] =
                [@ EXCEPT !.stage = "done", !.found = cb[cbReq[c].route].failures]]
    /\ UNCHANGED <<now, cbEvent, streak>>
    /\ UNCHANGED rateVars
    /\ UNCHANGED outsideStack

\* The response (or the exception) has left the stack.
StLeave(c) ==
    /\ cbReq[c].pc = "responded"
    /\ cbReq' = [cbReq EXCEPT ![c] = IdleClient]
    /\ stk' = [stk EXCEPT ![c] = NotInStack]
    /\ UNCHANGED <<cb, now, cbEvent, streak>>
    /\ UNCHANGED rateVars
    /\ UNCHANGED outsideStack

\* TickStep seconds pass, for the breaker's clock and for the keys of Redis.
StTick ==
    /\ now + TickStep <= MaxTime
    /\ now' = now + TickStep
    /\ rl' = [k \in RateKeys |-> Elapse(rl[k], TickStep)]
    /\ UNCHANGED <<cb, cbReq, cbEvent, streak>>
    /\ UNCHANGED <<rlReq, rlEvent, passed, refused, stk>>
    /\ UNCHANGED outsideStack

\* The stack is followed for the requests to one route.
StackRoutes == {"/v1/explanations/"}

\* request.client.host of each client's connection; "unknown" stands for a
\* request without a client.
ClientHost == [c \in Clients |-> IF c = "c1" THEN "10.0.0.1" ELSE "unknown"]

NextStack ==
    \/ \E c \in Clients, r \in StackRoutes : StArrive(c, r, ClientHost[c])
    \/ \E c \in Clients : StLimit(c)
    \/ \E c \in Clients, outcome \in StackOutcomes : StRoute(c, outcome)
    \/ \E c \in Clients : StComplete(c)
    \/ \E c \in Clients : StLeave(c)
    \/ StTick

SpecStack == InitStack /\ [][NextStack]_vars

(***************************************************************************)
(* TemplateGeneratorService.generate_instances.  The shuffled candidates   *)
(* are a set from which the loop takes any member next.                    *)
(***************************************************************************)
InitTemplates ==
    /\ InitStore /\ InitOrchIdle /\ InitBreakerIdle /\ InitRateIdle
    /\ InitWorkerIdle /\ InitShutdownIdle /\ InitTemplatesIdle
    /\ InitFlagsIdle /\ InitGptIdle /\ InitWindowIdle /\ InitBridgeIdle /\ InitStackIdle /\ InitStaleIdle

\* SpecTemplates serves one call at a time.
ActiveCallers == {"g1"}

\* The for loop from its head to the next await (the _build_instance of a
\* template that is not skipped) or to the end of generate_instances.
LoopOn(call) ==
    LET open == {t \in call.candidates :
                    ~Skips(call.user_id, t, call.seen_templates)} IN
    IF Len(call.instances) >= call.count \/ open = {}
    THEN [call EXCEPT !.pc = "done", !.candidates = {},
                      !.status = IF call.instances = <<>> THEN 409 ELSE 200]
    ELSE [call EXCEPT !.pc = "build"]

\* templates = await list_ready_templates(level_id): 422 on ValueError, 404
\* when there is none, else await _load_seen_templates(user_id)
TgList(c, level_id, user_id, count) ==
    LET templates == ListReadyTemplates(level_id)
        call == [IdleCall EXCEPT !.level_id = level_id, !.user_id = user_id,
                                 !.count = ClampCount(count)] IN
    /\ tg[c].pc = "idle"
    /\ tg' = [tg EXCEPT ![c] =
                IF level_id = "" THEN [call EXCEPT !.pc = "done", !.status = 422]
                ELSE IF templates = {} THEN [call EXCEPT !.pc = "done", !.status = 404]
                ELSE [call EXCEPT !.pc = "load", !.templates = templates]]
    /\ tgEvent' = [NoGeneratorEvent EXCEPT !.kind = "listed", !.caller = c]
    /\ UNCHANGED seenTasks
    /\ UNCHANGED outsideTemplates

\* seen_templates = smembers(seen_tasks:<user_id>), or the empty set without
\* a user; candidates = templates.copy(); shuffle; the loop begins
TgLoadSeen(c) ==
    LET seen == IF HasUser(tg[c].user_id) THEN seenTasks[tg[c].user_id] ELSE {} IN
    /\ tg[c].pc = "load"
    /\ tg' = [tg EXCEPT ![c] =
                LoopOn([tg[c] EXCEPT !.loaded = seen, !.seen_templates = seen,
                                     !.candidates = tg[c].templates])]
    /\ tgEvent' = [NoGeneratorEvent EXCEPT !.kind = "loaded", !.caller = c]
    /\ UNCHANGED seenTasks
    /\ UNCHANGED outsideTemplates

\* instance = await _build_instance(template, user_id), which ends with
\* _remember_template: sadd and expire; instances.append(instance);
\* seen_templates.add(template_id); the loop goes on
TgBuild(c, t) ==
    LET call == tg[c]
        u == call.user_id IN
    /\ call.pc = "build"
    /\ t \in call.candidates
    /\ ~Skips(u, t, call.seen_templates)
    /\ seenTasks' = IF HasUser(u) THEN [seenTasks EXCEPT ![u] = @ \cup {t}]
                    ELSE seenTasks
    /\ tg' = [tg EXCEPT ![c] =
                LoopOn([call EXCEPT !.instances = Append(@, t),
                                    !.seen_templates = @ \cup {t},
                                    !.candidates = @ \ {t}])]
    /\ tgEvent' = [kind |-> "built", caller |-> c, template_id |-> t,
                   fresh |-> IF HasUser(u) THEN t \notin seenTasks[u] ELSE TRUE]
    /\ UNCHANGED outsideTemplates

\* The response, or the HTTPException, has left generate_instances.
TgReturn(c) ==
    /\ tg[c].pc = "done"
    /\ tg' = [tg EXCEPT ![c] = IdleCall]
    /\ tgEvent' = [NoGeneratorEvent EXCEPT !.kind = "returned", !.caller = c]
    /\ UNCHANGED seenTasks
    /\ UNCHANGED outsideTemplates

\* The TTL of seen_tasks:<user_id> runs out: Redis deletes the set.
SeenExpires(u) ==
    /\ seenTasks[u] # {}
    /\ seenTasks' = [seenTasks EXCEPT ![u] = {}]
    /\ tgEvent' = [NoGeneratorEvent EXCEPT !.kind = "expired"]
    /\ UNCHANGED tg
    /\ UNCHANGED outsideTemplates

NextTemplates ==
    \/ \E c \in ActiveCallers, level_id \in LevelIds, user_id \in UserIds,
          count \in 1..MaxCount : TgList(c, level_id, user_id, count)
    \/ \E c \in ActiveCallers : TgLoadSeen(c)
    \/ \E c \in ActiveCallers, t \in GeneratorTemplateIds : TgBuild(c, t)
    \/ \E c \in ActiveCallers : TgReturn(c)
    \/ \E u \in KnownUsers : SeenExpires(u)

SpecTemplates == InitTemplates /\ [][NextTemplates]_vars

(***************************************************************************)
(* Two generate_instances calls in flight together: each await of one call *)
(* lets the other run.  The seen_tasks sets outlive the run.               *)
(***************************************************************************)
NextCallers ==
    \/ \E c \in GeneratorCallers, level_id \in LevelIds, user_id \in UserIds,
          count \in 1..MaxCount : TgList(c, level_id, user_id, count)
    \/ \E c \in GeneratorCallers : TgLoadSeen(c)
    \/ \E c \in GeneratorCallers, t \in GeneratorTemplateIds : TgBuild(c, t)
    \/ \E c \in GeneratorCallers : TgReturn(c)

SpecCallers == InitTemplates /\ [][NextCallers]_vars

(***************************************************************************)
(* FeatureFlagService.is_enabled, one action per await                     *)
(***************************************************************************)
\* the feature_flags document of the flag: none, enabled true, enabled
\* false, or a document without the field "enabled"
FlagDocs == {"missing", "enabled", "disabled", "no_enabled_field"}

InitFlags ==
    /\ InitStore /\ InitBreakerIdle /\ InitRateIdle
    /\ InitWorkerIdle /\ InitShutdownIdle /\ InitTemplatesIdle
    /\ InitFlagsIdle /\ InitGptIdle /\ InitWindowIdle /\ InitBridgeIdle /\ InitStackIdle /\ InitStaleIdle
    /\ settings = [cache_enabled |-> TRUE, explanation_yandexgpt_enabled |-> TRUE,
                   yandex |-> TRUE]
    /\ flagCache \in {NoneVal, "1", "0"}
    /\ flagDoc \in FlagDocs
    /\ req = [w \in Workers |-> IdleRequest]

\* is_enabled(flag_name, default) is called
FfCall(default) ==
    /\ ff.pc = "idle"
    /\ ff' = [IdleFlagCall EXCEPT !.pc = "get", !.flag_name = FlagName,
                                  !.default = default]
    /\ UNCHANGED <<cacheVars, orchVars>>
    /\ UNCHANGED outsideFlags

\* cached = await redis.get(cache_key); if cached is not None: return ...
FfGet ==
    /\ ff.pc = "get"
    /\ ff' = IF flagCache # NoneVal
             THEN [ff EXCEPT !.pc = "done", !.cached = flagCache,
                             !.value = FlagValue(flagCache, NoneVal, ff.default)]
             ELSE [ff EXCEPT !.pc = "find"]
    /\ UNCHANGED <<cacheVars, orchVars>>
    /\ UNCHANGED outsideFlags

\* doc = await collection.find_one({"flag_name": flag_name}); value = ...
FfFind ==
    /\ ff.pc = "find"
    /\ ff' = [ff EXCEPT !.pc = "setex", !.doc = flagDoc,
                        !.value = FlagValue(NoneVal, flagDoc, ff.default)]
    /\ UNCHANGED <<cacheVars, orchVars>>
    /\ UNCHANGED outsideFlags

\* await redis.setex(cache_key, ttl, "1" if value else "0"); return value
FfSetex ==
    /\ ff.pc = "setex"
    /\ flagCache' = FlagText(ff.value)
    /\ ff' = [ff EXCEPT !.pc = "done",
                        !.setex = <<[key |-> FlagKey(ff.flag_name),
                                     seconds |-> feature_flag_cache_ttl_seconds,
                                     value |-> FlagText(ff.value)]>>]
    /\ UNCHANGED <<cacheVars, settings, flagDoc, req>>
    /\ UNCHANGED outsideFlags

\* The caller has the value.
FfReturn ==
    /\ ff.pc = "done"
    /\ ff' = IdleFlagCall
    /\ UNCHANGED <<cacheVars, orchVars>>
    /\ UNCHANGED outsideFlags

NextFlags ==
    \/ \E default \in BOOLEAN : FfCall(default)
    \/ FfGet
    \/ FfFind
    \/ FfSetex
    \/ FfReturn
    \/ \E v \in FlagDocs : FlagDocChange(v)
    \/ FlagCacheExpires

SpecFlags == InitFlags /\ [][NextFlags]_vars

(***************************************************************************)
(* FeatureFlagService.is_enabled against a clock: the key written by setex *)
(* lives feature_flag_cache_ttl_seconds, the awaits of a call take any     *)
(* time, and the flag document changes at any moment.                      *)
(***************************************************************************)
\* Seconds per step of the clock, and the seconds a run is followed.
FlagStep == 100

FlagHorizon == 600

InitStale ==
    /\ InitStore /\ InitBreakerIdle /\ InitRateIdle
    /\ InitWorkerIdle /\ InitShutdownIdle /\ InitTemplatesIdle
    /\ InitFlagsIdle /\ InitGptIdle /\ InitWindowIdle /\ InitBridgeIdle /\ InitStackIdle
    /\ InitStaleIdle
    /\ settings = [cache_enabled |-> TRUE, explanation_yandexgpt_enabled |-> TRUE,
                   yandex |-> TRUE]
    /\ flagCache = NoneVal
    /\ flagDoc \in FlagDocs
    /\ req = [w \in Workers |-> IdleRequest]

\* A reader whose get also renews the TTL of the key.
TtlRenewedByRead(ttl) == feature_flag_cache_ttl_seconds

\* redis.get leaves the TTL of the key as it is.
TtlAfterRead(ttl) == ttl

\* The store holds an enabled value and it is not `value`.
Contradicted(value) ==
    /\ flagDoc \in {"enabled", "disabled"}
    /\ value # (flagDoc = "enabled")

\* is_enabled(flag_name, default) is called
SlCall(default) ==
    /\ ff.pc = "idle"
    /\ ff' = [IdleFlagCall EXCEPT !.pc = "get", !.flag_name = FlagName,
                                  !.default = default]
    /\ fl' = [fl EXCEPT !.stale = FALSE, !.held = 0]
    /\ UNCHANGED <<cacheVars, orchVars>>
    /\ UNCHANGED outsideStale

\* cached = await redis.get(cache_key); if cached is not None: return ...
SlGet ==
    /\ ff.pc = "get"
    /\ IF flagCache # NoneVal
       THEN /\ ff' = [ff EXCEPT !.pc = "done", !.cached = flagCache,
                                !.value = FlagValue(flagCache, NoneVal, ff.default)]
            /\ fl' = [fl EXCEPT !.ttl = TtlAfterRead(@),
                                !.stale = Contradicted(flagCache = "1")]
       ELSE /\ ff' = [ff EXCEPT !.pc = "find"]
            /\ fl' = fl
    /\ UNCHANGED <<cacheVars, orchVars>>
    /\ UNCHANGED outsideStale

\* doc = await collection.find_one({"flag_name": flag_name}); value = ...
SlFind ==
    /\ ff.pc = "find"
    /\ ff' = [ff EXCEPT !.pc = "setex", !.doc = flagDoc,
                        !.value = FlagValue(NoneVal, flagDoc, ff.default)]
    /\ fl' = [fl EXCEPT !.held = 0]
    /\ UNCHANGED <<cacheVars, orchVars>>
    /\ UNCHANGED outsideStale

\* await redis.setex(cache_key, ttl, "1" if value else "0"); return value
SlSetex ==
    /\ ff.pc = "setex"
    /\ flagCache' = FlagText(ff.value)
    /\ ff' = [ff EXCEPT !.pc = "done",
                        !.setex = <<[key |-> FlagKey(ff.flag_name),
                                     seconds |-> feature_flag_cache_ttl_seconds,
                                     value |-> FlagText(ff.value)]>>]
    /\ fl' = [fl EXCEPT !.ttl = feature_flag_cache_ttl_seconds, !.age = 0,
                        !.lag = fl.held, !.held = 0]
    /\ UNCHANGED <<cacheVars, settings, flagDoc, req>>
    /\ UNCHANGED outsideStale

\* The caller has the value.
SlReturn ==
    /\ ff.pc = "done"
    /\ ff' = IdleFlagCall
    /\ fl' = [fl EXCEPT !.stale = FALSE]
    /\ UNCHANGED <<cacheVars, orchVars>>
    /\ UNCHANGED outsideStale

\* An operator changes the feature flag document in Mongo.
SlChange(v) ==
    /\ flagDoc # v
    /\ flagDoc' = v
    /\ fl' = [fl EXCEPT !.since = 0]
    /\ UNCHANGED <<cacheVars, settings, flagCache, req, ff>>
    /\ UNCHANGED outsideStale

\* FlagStep seconds pass: Redis deletes the key whose TTL has run out.
SlTick ==
    LET left == IF fl.ttl > FlagStep THEN fl.ttl - FlagStep ELSE 0 IN
    /\ fl.clock + FlagStep <= FlagHorizon
    /\ flagCache' = IF left = 0 THEN NoneVal ELSE flagCache
    /\ fl' = [fl EXCEPT !.clock = @ + FlagStep,
                        !.ttl = left,
                        !.age = IF left = 0 THEN 0 ELSE @ + FlagStep,
                        !.lag = IF left = 0 THEN 0 ELSE @,
                        !.held = IF ff.pc = "setex" THEN @ + FlagStep ELSE @,
                        !.since = @ + FlagStep]
    /\ UNCHANGED <<cacheVars, settings, flagDoc, req, ff>>
    /\ UNCHANGED outsideStale

NextStale ==
    \/ \E default \in BOOLEAN : SlCall(default)
    \/ SlGet
    \/ SlFind
    \/ SlSetex
    \/ SlReturn
    \/ \E v \in FlagDocs : SlChange(v)
    \/ SlTick

SpecStale == InitStale /\ [][NextStale]_vars

(***************************************************************************)
(* YandexGPTClient.generate                                                *)
(***************************************************************************)
InitGpt ==
    /\ InitStore /\ InitOrchIdle /\ InitBreakerIdle /\ InitRateIdle
    /\ InitWorkerIdle /\ InitShutdownIdle /\ InitTemplatesIdle
    /\ InitFlagsIdle /\ InitWindowIdle /\ InitBridgeIdle /\ InitStackIdle /\ InitStaleIdle
    /\ \E api_key \in Credentials, folder_id \in Credentials :
          gpt = GenerationCall(api_key, folder_id)

\* generate(prompt, temperature, max_tokens) up to "await client.post"
GptCall(temperature, max_tokens) ==
    /\ gpt.pc = "idle"
    /\ gpt' = IF Unconfigured(gpt.api_key, gpt.folder_id)
              THEN [gpt EXCEPT !.pc = "done", !.temperature = temperature,
                               !.max_tokens = max_tokens,
                               !.outcome = Raised("RuntimeError", "unconfigured")]
              ELSE [gpt EXCEPT !.pc = "post", !.temperature = temperature,
                               !.max_tokens = max_tokens,
                               !.body = <<[temperature |-> OptionOrDefault(temperature),
                                           maxTokens |-> OptionOrDefault(max_tokens)]>>]
    /\ UNCHANGED outsideGpt

\* response = await client.post(url, json=body), and the rest of generate
GptPost(response) ==
    /\ gpt.pc = "post"
    /\ gpt' = [gpt EXCEPT !.pc = "done", !.response = response,
                          !.outcome = ReadCompletion(response)]
    /\ UNCHANGED outsideGpt

\* The caller has the text, or the exception.
GptReturn ==
    /\ gpt.pc = "done"
    /\ gpt' = GenerationCall(gpt.api_key, gpt.folder_id)
    /\ UNCHANGED outsideGpt

NextGpt ==
    \/ \E temperature \in OptionValues, max_tokens \in OptionValues :
          GptCall(temperature, max_tokens)
    \/ \E response \in Completions \cup HttpFailures : GptPost(response)
    \/ GptReturn

SpecGpt == InitGpt /\ [][NextGpt]_vars

(***************************************************************************)
(* Claims about the rate limiter                                           *)
(***************************************************************************)
\* The dispatch calls that incremented a new key and have not yet set its
\* expiry.
PendingFirst(k) ==
    Cardinality({c \in RateCallers : rlReq[c].pc = "expire" /\ rlReq[c].key = k})

\* C11: for each client address, within one window exactly `limit` requests
\* are passed downstream: the requests passed so far are those whose
\* increment returned a count up to the limit; a request whose increment
\* returned more than the limit is answered 429 and call_next is not invoked
\* for it.
C11_RateLimitCount ==
    /\ \A k \in RateKeys :
          passed[k] + PendingFirst(k) = Min(rl[k].count, limit)
    /\ \A c \in RateCallers :
          rlReq[c].pc = "downstream" => rlReq[c].count <= limit
    /\ rlEvent.kind = "passed" => rlEvent.called /\ rlEvent.count <= limit
    /\ rlEvent.kind = "rejected" =>
          /\ rlEvent.count > limit
          /\ ~rlEvent.called
          /\ rlEvent.response[1].status = 429

C11_Witness ==
    /\ rlEvent.kind = "rejected"
    /\ rlEvent.count = limit + 2
    /\ passed[rlEvent.key] = limit

Rejected(k) == rlEvent.kind = "rejected" /\ rlEvent.key = k

\* C12: after a rejection the key of the client expires and its counter is
\* back at zero; the increment that finds no key is counted as 1 and that
\* request is passed; no step other than the expire call of a request
\* counted as 1 gives the key a later expiry, so rejected requests do not
\* extend the window.
C12_WindowReset ==
    /\ \A k \in RateKeys : Rejected(k) ~> (rl[k].count = 0)
    /\ \A c \in RateCallers :
          (rlReq[c].pc = "expire") ~> (rlReq[c].pc = "downstream")
    /\ [][\A k \in RateKeys :
            /\ (rl[k].count = 0 /\ rl'[k].count > 0) =>
                  (rl'[k].count = 1 /\ rlEvent'.kind = "first" /\ rlEvent'.key = k)
            /\ rl'[k].ttl > rl[k].ttl =>
                  (rlEvent'.kind = "passed" /\ rlEvent'.key = k /\ rlEvent'.count = 1)
            /\ (rlEvent'.kind = "rejected" /\ rlEvent'.key = k) =>
                  rl'[k].ttl = rl[k].ttl]_vars

C12_Witness ==
    /\ rlEvent.kind = "passed"
    /\ rlEvent.count = 1
    /\ refused[rlEvent.key] = "before"

\* A retry hint: a member of the JSON body or a Retry-After header.
HasRetryHint(response) ==
    \/ response.body \cap {"retry_at", "retry_after"} # {}
    \/ "retry-after" \in response.headers

\* C19: every 429 of the rate limiter and every 503 of the open circuit
\* carries a retry hint, and every other response the middleware hands back
\* is an ExplanationResponse with its provenance tag (source).
C19_RejectionsCarryRetryHint ==
    /\ rlEvent.response # <<>> =>
          LET response == rlEvent.response[1] IN
          IF response.status \in {429, 503} THEN HasRetryHint(response)
          ELSE "source" \in response.body
    /\ \A c \in Clients : cbReq[c].status = 503 => HasRetryHint(CircuitOpen)

(***************************************************************************)
(* Claims about the embedding worker                                       *)
(***************************************************************************)
\* C13: _process applied to a change event whose payload equals that of the
\* processing completed just before, the rules unchanged since the first of
\* the two began, leaves the index as the first left it.
C13_IdempotentProcessing ==
    (wkEvent.kind = "processed" /\ wkEvent.same) => wkEvent.unchanged

C13_Witness ==
    /\ wkEvent.kind = "processed"
    /\ wkEvent.same
    /\ wkEvent.unchanged
    /\ FirstStep(Entry(wkEvent.entry)) = "find"
    /\ index[Entry(wkEvent.entry).document_id] # <<>>

\* C14: xack is called for an entry only after _process returned for it;
\* when _process or xack raises, the entry stays pending, the error is
\* logged, and the loop goes on with the rest of the batch or the next poll.
C14_AckAfterSuccessOnly ==
    /\ wk.pc = "ack" => wk.returned
    /\ wkEvent.kind = "acked" => wkEvent.returned
    /\ wkEvent.kind \in {"failed", "ack failed"} =>
          /\ wkEvent.entry \in group.pending
          /\ wkEvent.logged
          /\ wk.batch = wkEvent.rest
          /\ wk.pc = IF wkEvent.rest = <<>> THEN "poll" ELSE "process"

C14_Witness ==
    /\ wkEvent.kind = "failed"
    /\ wkEvent.rest # <<>>
    /\ wk.pc = "process"

\* C15: every entry left pending (processing failed, or the worker was
\* restarted in the middle of it) is delivered again and in the end
\* acknowledged, once the calls stop failing.
C15_RedeliveryLiveness ==
    \A p \in 1..MaxEvents : (p \in group.pending) ~> (p \notin group.pending)

IsRuleEvent(payload, id) ==
    payload.collection = "rules" /\ payload.document_id = id

Live(id) == corpus[id] # <<>> /\ corpus[id][1].status # "deprecated"

\* Entry p is older than another entry of the same rule, and every other
\* entry of that rule has been processed and acknowledged.
NewerProcessed(p) ==
    LET id == Entry(p).document_id IN
    /\ \E q \in (p + 1)..Len(stream) : IsRuleEvent(Entry(q), id)
    /\ \A q \in 1..Len(stream) :
          (q # p /\ IsRuleEvent(Entry(q), id)) =>
             (q <= group.delivered /\ q \notin group.pending)

\* C16: when an older entry of a rule is processed again after the newer
\* ones, the index afterwards has a point for the rule iff the rules
\* collection holds the rule and it is not deprecated.
C16_RedeliveryKeepsIndex ==
    (/\ wkEvent.kind = "processed"
     /\ wkEvent.again
     /\ Entry(wkEvent.entry).document_id \in RuleIds
     /\ NewerProcessed(wkEvent.entry)) =>
        (index[Entry(wkEvent.entry).document_id] # <<>>
            <=> Live(Entry(wkEvent.entry).document_id))

Quiescent ==
    /\ wk.pc = "poll"
    /\ group.delivered = Len(stream)
    /\ group.pending = {}

\* C17: when every entry of the stream has been processed and acknowledged,
\* the index holds a point for a rule id iff the rules collection holds that
\* rule and it is not deprecated, and the payload of the point is the one
\* computed from the current document.
C17_IndexConsistentAtQuiescence ==
    Quiescent =>
       \A id \in RuleIds :
          /\ index[id] # <<>> <=> Live(id)
          /\ Live(id) =>
                /\ index[id][1].id = id
                /\ index[id][1].payload = PointOf(id, corpus[id][1]).payload

C17_Witness ==
    /\ Quiescent
    /\ Len(stream) >= 3
    /\ \E id \in RuleIds : Live(id) /\ corpus[id][1].name = "n2" /\ index[id] # <<>>

(***************************************************************************)
(* Claims about shutdown                                                   *)
(***************************************************************************)
\* C18: on shutdown the background tasks are cancelled and have ended before
\* any connection is closed: while a connection is closed, neither the
\* embedding worker nor the scheduler is still running.
C18_ShutdownOrdering ==
    sd.closed # {} =>
       /\ ~WorkerRunning
       /\ sd.scheduler = "stopped"

(***************************************************************************)
(* Claims about the template generator                                     *)
(***************************************************************************)
Range(seq) == {seq[i] : i \in 1..Len(seq)}

\* C20: for a request with a user id, no returned instance is of a template
\* that was in seen_tasks:<user_id> (neither when the set was read nor when
\* the instance was built), and every template built is in the set after its
\* step; a response holds at most `count` instances of distinct ready
\* templates of the level; the call ends with 409 exactly when no template
\* could be chosen (with a user: every ready template was in the set) and
\* with 404 when the level has no ready template.
C20_TemplateDeduplication ==
    /\ \A c \in GeneratorCallers :
          LET call == tg[c] IN
          /\ HasUser(call.user_id) => Range(call.instances) \cap call.loaded = {}
          /\ Len(call.instances) <= call.count
          /\ Cardinality(Range(call.instances)) = Len(call.instances)
          /\ Range(call.instances) \subseteq ListReadyTemplates(call.level_id)
          /\ call.pc = "done" =>
                /\ call.status = 404 <=>
                      (call.level_id # "" /\ ListReadyTemplates(call.level_id) = {})
                /\ call.status = 409 <=>
                      /\ HasUser(call.user_id)
                      /\ call.templates # {}
                      /\ call.templates \subseteq call.loaded
                /\ call.status = 200 <=> call.instances # <<>>
    /\ tgEvent.kind = "built" =>
          LET u == tg[tgEvent.caller].user_id IN
          /\ tgEvent.fresh
          /\ HasUser(u) => tgEvent.template_id \in seenTasks[u]

C20_Witness ==
    \E c \in GeneratorCallers :
       /\ tg[c].pc = "done"
       /\ tg[c].status = 200
       /\ tg[c].user_id = "u1"
       /\ tg[c].loaded # {}
       /\ tg[c].instances # <<>>


(***************************************************************************)
(* Claims about the feature flag reader                                    *)
(***************************************************************************)
\* C21: when feature_flag:<name> is present, is_enabled returns the cached
\* value ("1" is true) without reading the store and without writing; on a
\* miss it reads the store, returns the stored enabled value, or `default`
\* when the flag (or its field) is absent, and writes that value to
\* feature_flag:<name> as "1" or "0" with the flag TTL.
C21_FlagResolution ==
    /\ ff.pc = "done" /\ ff.cached # NoneVal =>
          /\ ff.value = (ff.cached = "1")
          /\ ff.doc = NoneVal
          /\ ff.setex = <<>>
    /\ ff.pc = "done" /\ ff.cached = NoneVal =>
          /\ ff.doc \in FlagDocs
          /\ ff.doc = "enabled" => ff.value
          /\ ff.doc = "disabled" => ~ff.value
          /\ ff.doc \in {"missing", "no_enabled_field"} => ff.value = ff.default
          /\ ff.setex = <<[key |-> <<"feature_flag", ff.flag_name>>,
                           seconds |-> feature_flag_cache_ttl_seconds,
                           value |-> IF ff.value THEN "1" ELSE "0"]>>
    /\ ff.pc \in {"find", "setex"} => ff.cached = NoneVal

C21_Witness ==
    /\ ff.pc = "done"
    /\ ff.cached = NoneVal
    /\ ff.doc = "missing"
    /\ ff.default
    /\ ff.value
    /\ flagCache = "1"


(***************************************************************************)
(* Claims about the rate limiter under interleaving                        *)
(***************************************************************************)
\* C22: with the dispatch calls of several requests of one address
\* interleaved at their awaits inside one window, at most `limit` of them are
\* passed downstream, and no increment is lost: every increment raises the
\* counter by exactly one and returns the new value, so the k-th increment of
\* the window observes k.
C22_CounterSafeUnderConcurrency ==
    /\ [](\A k \in RateKeys :
            /\ passed[k] + PendingFirst(k) <= limit
            /\ PendingFirst(k) <= 1
            /\ \A c \in RateCallers :
                  rlReq[c].pc = "expire" /\ rlReq[c].key = k =>
                     rlReq[c].count = 1 /\ rl[k].count >= 1)
    /\ [][\A k \in RateKeys :
            /\ rl'[k].count > rl[k].count =>
                  /\ rl'[k].count = rl[k].count + 1
                  /\ rlEvent'.key = k
                  /\ rlEvent'.kind \in {"first", "passed", "rejected"}
                  /\ rlEvent'.kind # "passed" \/ rlEvent'.count > 1
            /\ (rlEvent'.kind \in {"first", "rejected"} /\ rlEvent'.key = k) =>
                  /\ rl'[k].count = rl[k].count + 1
                  /\ rlEvent'.count = rl'[k].count
            /\ (rlEvent'.kind = "passed" /\ rlEvent'.key = k /\ rlEvent'.count > 1) =>
                  /\ rl'[k].count = rl[k].count + 1
                  /\ rlEvent'.count = rl'[k].count]_vars

C22_Witness ==
    /\ rlReq["d1"].pc = "expire"
    /\ rlReq["d2"].pc = "downstream"
    /\ rlReq["d2"].key = rlReq["d1"].key
    /\ rlReq["d2"].count = 2
    /\ rl[rlReq["d1"].key].count = 2


(***************************************************************************)
(* Claims about the failure counter of the circuit breaker                 *)
(***************************************************************************)
\* C24: a response with a status below 500 sets the failure counter of its
\* route to zero; the counter is below failure_threshold in every state and
\* never exceeds the server errors in a row on the route; and open_until of
\* a route changes only with the server error that is the
\* failure_threshold-th in a row, with no response below 500 in between.
C24_ConsecutiveFailuresOnly ==
    /\ [](\A r \in Routes :
            /\ cb[r].failures < failure_threshold
            /\ cb[r].failures <= streak[r])
    /\ [][\A c \in Clients :
            (cbReq[c].pc = "downstream" /\ cbReq'[c].pc = "responded") =>
               LET r == cbReq[c].route IN
               /\ cbReq'[c].status < 500 =>
                     /\ cb'[r].failures = 0
                     /\ streak'[r] = 0
                     /\ cb'[r].open_until = cb[r].open_until
               /\ cbReq'[c].status >= 500 =>
                     /\ streak'[r] = (streak[r] % failure_threshold) + 1
                     /\ cb'[r].open_until # cb[r].open_until =>
                           streak'[r] = failure_threshold]_vars
    /\ [][\A r \in Routes :
            cb'[r].open_until # cb[r].open_until =>
               /\ cbEvent'.kind = "failure"
               /\ cbEvent'.route = r
               /\ streak'[r] = failure_threshold]_vars

C24_Witness ==
    /\ cbEvent.kind = "success"
    /\ cbEvent.before.failures = failure_threshold - 1
    /\ cbEvent.before.open_until = 0
    /\ cb[cbEvent.route].failures = 0
    /\ \E c \in Clients :
          /\ cbReq[c].pc = "responded"
          /\ cbReq[c].route = cbEvent.route
          /\ cbReq[c].status = 429


(***************************************************************************)
(* Claims about the fallback paths of handle_request                       *)
(***************************************************************************)
\* rule_ids reached from the task through its template; empty when the
\* task, its template_id or the template is missing
WalkedRuleIds(task_id) ==
    IF ~MongoTasks[task_id].exists THEN <<>>
    ELSE IF MongoTasks[task_id].template_id = NoneVal THEN <<>>
    ELSE IF MongoTasks[task_id].template_id \notin DOMAIN MongoTemplates THEN <<>>
    ELSE MongoTemplates[MongoTasks[task_id].template_id].rule_ids

\* C23: the fallback response after a prompt-building failure has empty
\* rule_refs; the fallback response after an LLM failure or with the LLM
\* disabled has the rule_refs of the context retriever when these are not
\* empty, and else the rule ids reached by task -> template -> rule_ids.
C23_RuleRefsOnFallback ==
    \A w \in Workers :
        /\ (req[w].pc = "done" /\ req[w].path = "prompt_failure")
              => /\ req[w].response[1].source = "fallback"
                 /\ req[w].response[1].rule_refs = <<>>
        /\ (req[w].pc = "done" /\ req[w].path \in {"llm_failed", "llm_disabled"})
              => /\ req[w].response[1].source = "fallback"
                 /\ req[w].retrieved # <<>>
                       => req[w].response[1].rule_refs = req[w].retrieved
                 /\ req[w].retrieved = <<>>
                       => req[w].response[1].rule_refs
                             = WalkedRuleIds(Payload(w).task_id)

C23_Witness ==
    \E w \in Workers :
        /\ req[w].pc = "done"
        /\ req[w].path = "llm_failed"
        /\ req[w].retrieved = <<>>
        /\ req[w].response[1].rule_refs = <<"r1">>


\* rule_ids of the template of the task; none without a template
TemplateRuleIds(task_id) ==
    IF MongoTasks[task_id].template_id \in DOMAIN MongoTemplates
    THEN MongoTemplates[MongoTasks[task_id].template_id].rule_ids
    ELSE <<>>

Searched(w) == req[w].search # ""

HitsDescribed(w) == req[w].search \in {"hits", "described_hits_without_rule_id"}

HitIds(w) ==
    IF req[w].search \in {"hits", "hits_without_description"} THEN <<"r2">> ELSE <<>>

\* C27: when the vector search raises, or no hit has a description,
\* _search_rules does not fail: it returns the context lines of the rules of
\* the task's template; rule_refs are the rule ids of the hits when at least
\* one hit has a description, else the rule_ids of the template, and the ids
\* of the hits only when the template has none (none at all when the search
\* raised).
C27_RetrievalFallback ==
    \A w \in Workers :
        Searched(w) =>
            LET t == Payload(w).task_id IN
            /\ "rag.build_prompt" \in req[w].calls
            /\ req[w].pc # "prompt_failed"
            /\ req[w].error # "ValueError"
            /\ HitsDescribed(w) =>
                  /\ req[w].retrieved = HitIds(w)
                  /\ req[w].chunks # <<>>
            /\ ~HitsDescribed(w) =>
                  /\ req[w].chunks
                        = SelectSeq(TemplateRuleIds(t), LAMBDA r : r \in MongoRules)
                  /\ TemplateRuleIds(t) # <<>> => req[w].retrieved = TemplateRuleIds(t)
                  /\ (TemplateRuleIds(t) = <<>> /\ req[w].search # "error")
                        => req[w].retrieved = HitIds(w)
                  /\ (TemplateRuleIds(t) = <<>> /\ req[w].search = "error")
                        => req[w].retrieved = <<>>

C27_Witness ==
    \E w \in Workers :
        /\ req[w].search = "hits_without_description"
        /\ Payload(w).task_id = "t1"
        /\ req[w].retrieved = <<"r1">>
        /\ req[w].chunks = <<"r1">>
        /\ req[w].pc = "flag_check"

\* C28: when the task of the request does not exist, build_prompt raises
\* ValueError and handle_request answers with source 'fallback', empty
\* rule_refs and the default text of the resolver; the feature flag is not
\* resolved, the generation client is not called, nothing is written to the
\* cache and no exception leaves handle_request.
C28_MissingTaskAbsorbed ==
    \A w \in Workers :
        (req[w].payload # <<>> /\ "rag.build_prompt" \in req[w].calls
            /\ ~MongoTasks[Payload(w).task_id].exists)
        => /\ req[w].pc \in {"prompt_failed", "done"}
           /\ req[w].search = ""
           /\ req[w].calls \cap {"feature_flags.is_enabled", "yandex.generate",
                                 "cache.set"} = {}
           /\ req[w].pc = "done" =>
                 /\ req[w].path = "prompt_failure"
                 /\ req[w].response[1].source = "fallback"
                 /\ req[w].response[1].rule_refs = <<>>
                 /\ req[w].response[1].explanation
                       = "default: reread the task and recall the rule"

C28_Witness ==
    \E w \in Workers :
        /\ req[w].pc = "done"
        /\ Payload(w).task_id = "t3"
        /\ req[w].path = "prompt_failure"
        /\ settings.yandex
        /\ ~req[w].flagFalse
        /\ req[w].response[1].source = "fallback"

FallbackComputed(w) ==
    req[w].pc \in {"done", "cache_set"}
        /\ req[w].path \in {"prompt_failure", "llm_failed", "llm_empty", "llm_disabled"}

\* C29: fallback_for_task always gives a text, by the first of these that
\* applies: the task is missing: the default message; the task has hints:
\* the text of the first hint (a stock message when that hint has no text);
\* no template_id: the 'compare with the sample' message; the template is
\* missing: the theory message; the template has no rule_ids: the reread
\* message; none of its rules exists: the main-rule message; else the
\* reminder built from the rules.
C29_FallbackResolverPriority ==
    \A w \in Workers :
        FallbackComputed(w) =>
            LET task == MongoTasks[Payload(w).task_id]
                text == req[w].response[1].explanation
                hinted == task.exists /\ task.hints # <<>>
                plain == task.exists /\ task.hints = <<>>
                templated == plain /\ task.template_id \in DOMAIN MongoTemplates IN
            /\ text # ""
            /\ text = req[w].text
            /\ ~task.exists => text = "default: reread the task and recall the rule"
            /\ (hinted /\ task.hints[1].has_text) => text = task.hints[1].text
            /\ (hinted /\ ~task.hints[1].has_text)
                  => text = "repeat the rule in the textbook"
            /\ (plain /\ task.template_id = NoneVal)
                  => text = "compare your answer with the sample"
            /\ (plain /\ task.template_id # NoneVal
                      /\ task.template_id \notin DOMAIN MongoTemplates)
                  => text = "check the theory of the topic"
            /\ (templated /\ TemplateRuleIds(Payload(w).task_id) = <<>>)
                  => text = "reread the wording of the question"
            /\ (templated /\ TemplateRuleIds(Payload(w).task_id) # <<>>
                      /\ \A i \in DOMAIN TemplateRuleIds(Payload(w).task_id) :
                            TemplateRuleIds(Payload(w).task_id)[i] \notin MongoRules)
                  => text = "follow the basic rule"
            /\ (templated
                      /\ \E i \in DOMAIN TemplateRuleIds(Payload(w).task_id) :
                            TemplateRuleIds(Payload(w).task_id)[i] \in MongoRules)
                  => text = "rule reminder"

C29_Witness ==
    \E w \in Workers :
        /\ req[w].pc = "done"
        /\ Payload(w).task_id = "t4"
        /\ req[w].path = "llm_disabled"
        /\ req[w].response[1].explanation = "first hint"


(***************************************************************************)
(* Claims about the removal of index entries                               *)
(***************************************************************************)
\* The entry in work asks for a removal: a rules event with action
\* 'deleted' or status 'deprecated', or one whose rule, read by find_one,
\* is missing or deprecated.
RemovalInWork ==
    LET payload == stream[wk.batch[1]] IN
    /\ payload.collection = "rules"
    /\ payload.document_id # ""
    /\ \/ payload.action = "deleted"
       \/ payload.status = "deprecated"
       \/ wk.pc = "apply" /\ wk.rule = <<>>
       \/ wk.pc = "apply" /\ wk.rule # <<>> /\ wk.rule[1].status = "deprecated"

\* C25: when _process returns for such an entry, the index has no point
\* with the document id, whether or not it had one before, the other points
\* are as they were, and the worker goes on to xack, which removes the entry
\* from the pending list.
C25_DeleteRemovesPoint ==
    /\ [][(wk.pc \in {"process", "apply"} /\ wkEvent'.kind = "processed"
              /\ RemovalInWork)
          => LET id == stream[wk.batch[1]].document_id IN
             /\ index'[id] = <<>>
             /\ \A other \in RuleIds \ {id} : index'[other] = index[other]
             /\ wk'.pc = "ack"
             /\ wk'.batch = wk.batch]_vars
    /\ [][(wk.pc = "ack" /\ wkEvent'.kind = "acked")
          => /\ wk.batch[1] \notin group'.pending
             /\ index' = index]_vars

C25_Witness ==
    /\ wkEvent.kind = "acked"
    /\ wkEvent.returned
    /\ stream[wkEvent.entry].action = "updated"
    /\ stream[wkEvent.entry].status = "deprecated"
    /\ index[stream[wkEvent.entry].document_id] = <<>>
    /\ wkHist.last.index = EmptyIndex
    /\ wkEvent.entry > 1
    /\ wkEvent.entry \notin group.pending


(***************************************************************************)
(* Claims about the generation client                                      *)
(***************************************************************************)
Blank(text) == \A i \in DOMAIN text : text[i] \in {" ", "\n"}

\* the text without the white space at its two ends
IsStripped(short, long) ==
    /\ short = <<>> \/ (short[1] \notin {" ", "\n"} /\ short[Len(short)] \notin {" ", "\n"})
    /\ \E i \in 1..(Len(long) + 1) :
          /\ Blank(SubSeq(long, 1, i - 1))
          /\ short = SubSeq(long, i, i + Len(short) - 1)
          /\ Blank(SubSeq(long, i + Len(short), Len(long)))

\* the text of the first alternative, when the response has one
FirstText(response) ==
    IF response.http = "ok" /\ response.result # "null"
          /\ response.alternatives # <<>>
          /\ response.alternatives[1].message # <<>>
    THEN response.alternatives[1].message[1].text
    ELSE <<>>

C30_SlidingWindowLimit ==
    \A k \in RateKeys : Len(win[k]) <= limit


(***************************************************************************)
(* Claims about the change-stream bridge                                   *)
(***************************************************************************)
\* The stream holds the event of change p of the collections.
Published(p) ==
    /\ p <= Len(oplog)
    /\ \E q \in 1..Len(stream) : stream[q] = EventOf(oplog[p])

\* The bridge is in its watcher and change p of the collections is one it
\* has not passed yet.
Awaited(p) ==
    /\ br.pc = "watching"
    /\ br.cursor < p
    /\ p <= Len(oplog)

\* C31: every insert, update, replace or delete on the rules collection
\* leads the bridge to append the change event {collection = 'rules',
\* document_id, action} to the stream the embedding worker consumes.  Stated
\* for the changes made while the bridge is up and watching, and as long as
\* it stays so: such a change is followed by its event in the stream, unless
\* the watcher is left by an error first.
C31_RuleMutationsReachStream ==
    \A p \in 1..MaxChanges :
        (Awaited(p) /\ oplog[p].collection = "rules")
            ~> (Published(p) \/ br.pc # "watching")


(***************************************************************************)
(* Claims about the provenance of generated responses                      *)
(***************************************************************************)
\* C32: every response with source 'yandexgpt' carries a non-empty
\* explanation equal to the stripped text a successful generate call of the
\* same request returned (a cache hit hands on a response stored with its
\* text); when generate returns a text that is empty after stripping, the
\* response comes from the fallback resolver with source 'fallback'.
C32_GeneratedProvenance ==
    \A w \in Workers :
        req[w].response # <<>> =>
            LET response == req[w].response[1] IN
            /\ response.source = "yandexgpt" => response.explanation # ""
            /\ (response.source = "yandexgpt" /\ req[w].path # "hit")
                  => /\ req[w].generated = "text"
                     /\ "yandex.generate" \in req[w].calls
                     /\ response.explanation = GeneratedText(req[w].generated)
            /\ req[w].generated = "blank_text"
                  => /\ response.source = "fallback"
                     /\ response.explanation = FallbackForTask(Payload(w).task_id)

C32_Witness ==
    \E w \in Workers :
        /\ req[w].pc = "done"
        /\ req[w].generated = "blank_text"
        /\ req[w].response # <<>>
        /\ req[w].response[1].source = "fallback"


(***************************************************************************)
(* Claims about concurrent handle_request calls                            *)
(***************************************************************************)
\* The two requests agree in the six fields the fingerprint is made of.
SameIdentity(p, q) ==
    /\ p.task_id = q.task_id
    /\ p.topic_id = q.topic_id
    /\ p.task_type = q.task_type
    /\ p.user_errors = q.user_errors
    /\ p.language_level = q.language_level
    /\ p.language = q.language

\* Both calls are under way, or done, for requests of one fingerprint.
Twins(w, v) ==
    /\ w # v
    /\ req[w].pc # "idle"
    /\ req[v].pc # "idle"
    /\ SameIdentity(Payload(w), Payload(v))

Generated(w) == "yandex.generate" \in req[w].calls

\* Call w read, in its cache lookup, the document call v had written.
ReadWriteOf(w, v) ==
    /\ req[w].pc \notin {"idle", "cache_get"}
    /\ req[v].wrote = <<req[w].seen>>

\* C33 as stated: when two handle_request calls with the same fingerprint
\* run concurrently on an empty cache (caching and the LLM path enabled),
\* the generation client is invoked at most once for that fingerprint and
\* both callers receive the same explanation.
C33_Original ==
    \A w, v \in Workers :
        Twins(w, v) =>
            /\ ~(Generated(w) /\ Generated(v))
            /\ (req[w].pc = "done" /\ req[v].pc = "done")
                  => req[w].response[1].explanation = req[v].response[1].explanation

\* C33, amended: the generation client is invoked only by a call whose
\* cache lookup found no entry of its fingerprint, so two concurrent calls
\* may both invoke it; a call whose lookup comes after the other's write
\* does not invoke it and receives the response the other call wrote.
C33_GenerationPerMiss ==
    \A w, v \in Workers :
        Twins(w, v) =>
            /\ (Generated(w) /\ Generated(v))
                  => /\ ~ReadWriteOf(w, v)
                     /\ ~ReadWriteOf(v, w)
            /\ ReadWriteOf(w, v)
                  => /\ req[w].path = "hit"
                     /\ ~Generated(w)
                     /\ req[w].response = req[v].response

C33_Witness ==
    /\ Twins("w1", "w2")
    /\ req["w1"].pc = "done" /\ req["w2"].pc = "done"
    /\ Generated("w1") /\ Generated("w2")
    /\ req["w1"].response[1].explanation # req["w2"].response[1].explanation
    /\ store["t1"] = req["w1"].wrote[1]

\* C34: under every interleaving of concurrent handle_request calls, also
\* of calls with one task_id and different fingerprints, which share a key,
\* the value stored under a key pairs a fingerprint with a response computed
\* for a request of exactly that fingerprint, and no caller is served a
\* response computed for a request of another fingerprint.
C34_EntriesSelfConsistent ==
    /\ \A k \in TaskIds :
          store[k] # AbsentRaw =>
              \E v \in Workers :
                  /\ req[v].wrote = <<store[k]>>
                  /\ req[v].path # "hit"
                  /\ Key(Payload(v).task_id) = k
                  /\ store[k].fingerprint = <<Fingerprint(Payload(v))>>
                  /\ store[k].response = <<ResponseToJson(req[v].response[1])>>
    /\ \A w \in Workers :
          req[w].path = "hit" =>
              \E v \in Workers \ {w} :
                  /\ SameIdentity(Payload(v), Payload(w))
                  /\ req[v].path # "hit"
                  /\ req[v].response = req[w].response

C34_Witness ==
    /\ req["w1"].pc = "done" /\ req["w2"].pc = "done"
    /\ Payload("w1").task_id = Payload("w2").task_id
    /\ ~SameIdentity(Payload("w1"), Payload("w2"))
    /\ req["w1"].wrote # <<>> /\ req["w2"].wrote # <<>>
    /\ store["t1"] = req["w2"].wrote[1]
    /\ req["w1"].seen = AbsentRaw /\ req["w2"].seen = AbsentRaw


(***************************************************************************)
(* Claims about the counter of an open circuit                             *)
(***************************************************************************)
\* C35: in every reachable state, also when requests that were in flight
\* when the circuit opened complete with a failure afterwards, a route whose
\* circuit is open (open_until > now) has failure counter 0, and no step
\* taken while it is open pushes its open_until later.
C35_OpenCircuitCounterZero ==
    /\ [](\A r \in Routes : IsOpen(cb[r], now) => cb[r].failures = 0)
    /\ [][\A r \in Routes :
             IsOpen(cb[r], now) => cb'[r].open_until = cb[r].open_until]_vars


(***************************************************************************)
(* Claims about the expiry of the rate limiter's keys                      *)
(***************************************************************************)
\* A dispatch has incremented key k to 1 and has its expire call ahead.
ExpireAhead(k) ==
    \E c \in RateCallers : rlReq[c].pc = "expire" /\ rlReq[c].key = k

\* C36: in every reachable state in which a ratelimit:<client> key exists
\* it has an expiry set, also when a dispatch was interrupted (failure or
\* cancellation) between the increment and the expire call; a key whose
\* expire call is still to come is not counted against the claim.
C36_CountersAlwaysExpire ==
    \A k \in RateKeys :
        (rl[k].count > 0 /\ ~ExpireAhead(k)) => rl[k].ttl # NoExpiry


(***************************************************************************)
(* Claims about the end of the worker loop                                 *)
(***************************************************************************)
\* C37: after ensure_group succeeded run_forever keeps polling until its
\* task is cancelled: a failure of the poll (xreadgroup) or of the
\* backlog-gauge update (xlen) does not end the loop.
C37_LoopEndsOnlyByCancellation ==
    /\ wk.pc \in {"poll", "process", "apply", "ack", "cancelled"}
    /\ wk.pc = "cancelled" => sd.cancelRequested



(***************************************************************************)
(* Claims about the breaker and the limiter in one stack                   *)
(***************************************************************************)
\* The breaker answers the request of client c with 503 in this step.
RejectedByBreaker(c) ==
    /\ cbReq[c].pc = "idle"
    /\ cbReq'[c].pc = "responded"
    /\ cbReq'[c].status = 503

\* The outcome of client c's request comes back to the breaker in this
\* step.
ComesBack(c) == stk[c].stage = "back" /\ stk'[c].stage = "done"

\* The outcome that comes back is the limiter's 429.
RateLimited(c) == stk[c].outcome[1] = LimiterRejects

\* The statement as made: a request the limiter rejects leaves the circuit
\* state of every route as it was, and a request the open circuit rejects
\* leaves every rate-limit counter as it was.
C38_Original ==
    [][\A c \in Clients :
          /\ (ComesBack(c) /\ RateLimited(c)) => cb' = cb
          /\ RejectedByBreaker(c) => rl' = rl]_vars

\* C38: a request rejected by the limiter (429) never increments the
\* route's failure counter and never opens its circuit: as any response
\* that is not a server error it sets the counter to zero; a request
\* rejected by the open circuit (503) does not increment any rate-limit
\* counter; a server error that comes back with the counter one below
\* failure_threshold opens the circuit, and one that comes back earlier
\* adds one to the counter.
C38_LimiterResetsBreakerBreakerSparesLimiter ==
    [][\A c \in Clients :
          LET r == cbReq[c].route IN
          /\ (ComesBack(c) /\ RateLimited(c)) =>
                /\ cb'[r].failures = 0
                /\ cb'[r].open_until = cb[r].open_until
                /\ \A q \in Routes \ {r} : cb'[q] = cb[q]
          /\ (ComesBack(c) /\ IsServerError(stk[c].outcome[1])) =>
                IF cb[r].failures = failure_threshold - 1
                THEN cb'[r] = [failures |-> 0, open_until |-> now + recovery_time]
                ELSE /\ cb'[r].failures = cb[r].failures + 1
                     /\ cb'[r].open_until = cb[r].open_until
          /\ RejectedByBreaker(c) => rl' = rl]_vars

\* A 429 has come back to the breaker, which found server errors counted
\* on the route and counts none now, while the circuit stays closed.
C38_Witness ==
    \E c \in Clients :
        /\ stk[c].stage = "done"
        /\ stk[c].outcome[1] = LimiterRejects
        /\ stk[c].found > 0
        /\ cb[cbReq[c].route] = ClosedState



(***************************************************************************)
(* Claims about the staleness of the flag cache                            *)
(***************************************************************************)
\* In this step redis.get gives the running call a cached value.
FlagHit == ff.pc = "get" /\ ff'.pc = "done"

TemplatesBuilt(c) == {tg[c].instances[i] : i \in 1..Len(tg[c].instances)}

\* Calls c and d are in flight together for one user and one level.
Together(c, d) ==
    /\ c # d
    /\ tg[c].pc \in {"load", "build", "done"}
    /\ tg[d].pc \in {"load", "build", "done"}
    /\ HasUser(tg[c].user_id)
    /\ tg[c].user_id = tg[d].user_id
    /\ tg[c].level_id = tg[d].level_id

\* C40: two generate_instances calls that run together for the same user_id
\* and level never both return an instance of the same template.
C40_NoTemplateForBothCalls ==
    \A c, d \in GeneratorCallers :
        Together(c, d) => TemplatesBuilt(c) \cap TemplatesBuilt(d) = {}

============================================================================
